---- MODULE Spec2Model ----
(***************************************************************************)
(* A model of the agent lifecycle layer of magic-agent:                    *)
(*   - StateMachine            (src/app/agent/state_machine.py)             *)
(*   - BaseAgent / AgentState  (src/app/agent/base.py, state.py)            *)
(*   - StatePersistence        (src/app/agent/persistence.py)               *)
(*   - TokenManager            (src/app/llm/token.py)                       *)
(*   - AgentSession            (src/app/agent/session.py)                   *)
(*   - DefaultAgent            (src/app/agent/default.py)                   *)
(*   - handle_agent_request    (src/main.py)                                *)
(*   - BaseLLM._handle_retry   (src/app/llm/base.py)                        *)
(*   - MessageHandler          (src/app/agent/message_handler.py)           *)
(* Each component has its own specification over the shared variables:     *)
(*   SpecSM    the StateMachine driven by arbitrary calls,                  *)
(*   Spec      one BaseAgent runtime driven by one caller,                  *)
(*   SpecRun   run() and its surroundings, with the event loop's fairness,  *)
(*   SpecObs   the observers of a runtime's status,                         *)
(*   SpecSave  the throttle of the automatic save,                          *)
(*   SpecTok   truncate_messages on drawn message collections,              *)
(*   SpecPers  save_state / load_state / delete_state on one state file,    *)
(*             of a state that gets messages and counts steps meanwhile,    *)
(*   SpecSess  the session manager called by two interleaving callers and   *)
(*             the shutdown of the application, no file operation failing,  *)
(*   SpecSess1 the session manager with one caller, a clock and failures,   *)
(*   SpecDefault  DefaultAgent runtimes created one after the other,        *)
(*   SpecReq   two tasks in handle_agent_request for one session id,        *)
(*   SpecRetry one call of _handle_retry, with the event loop's fairness,   *)
(*   SpecHist  truncate_message_history on drawn histories.                 *)
(* A coroutine that awaits is suspended on Python <= 3.11 where the code    *)
(* awaits asyncio.wait_for or another coroutine that does: the operations  *)
(* that save are modelled in the steps between their suspensions.          *)
(***************************************************************************)
EXTENDS Integers, Sequences, FiniteSets, TLC

\* ------------------------------------------------------------------------
\* Optional values (Python None / a value) are sets with at most one element.
NoneV == {}
Some(x) == {x}
IsNone(o) == o = {}
The(o) == CHOOSE x \in o : TRUE

\* ========================================================================
\*                              STATE MACHINE
\* ========================================================================

\* ----------------------------- bounds -----------------------------------
\* registrations of transition callbacks explored
MaxCallbacks == 2
\* successful allow_transition calls explored
MaxAllow == 1

VARIABLES
    valid_states,          \* StateMachine.valid_states
    allowed_transitions,   \* StateMachine.allowed_transitions (dict: state -> set)
    transition_callbacks,  \* StateMachine.transition_callbacks (dict: key -> list)
    current_state,         \* StateMachine.current_state
    state_data,            \* StateMachine.state_data (dict as a set of <<key, value>>)
    sm_raising,            \* the registered callbacks (ids) whose body raises
    sm_call,               \* the last call made: its name, arguments and pre-state
    sm_ret,                \* what the last call returned or raised
    sm_invoked,            \* the callbacks the last call invoked, in order
    sm_granted             \* the <<from, to>> pairs allow_transition has accepted

smvars == <<valid_states, allowed_transitions, transition_callbacks, current_state,
            state_data, sm_raising, sm_call, sm_ret, sm_invoked, sm_granted>>

\* state_machine.py:19-22
BuiltinStates == {"INITIALIZING", "IDLE", "PROCESSING", "RUNNING",
                  "STOPPING", "STOPPED", "ERROR"}

\* state_machine.py:25-33
InitialTransitions ==
    [s \in BuiltinStates |->
        CASE s = "INITIALIZING" -> {"IDLE", "ERROR"}
          [] s = "IDLE"         -> {"PROCESSING", "RUNNING", "STOPPING", "ERROR"}
          [] s = "PROCESSING"   -> {"IDLE", "ERROR"}
          [] s = "RUNNING"      -> {"IDLE", "STOPPING", "ERROR"}
          [] s = "STOPPING"     -> {"STOPPED", "ERROR"}
          [] s = "STOPPED"      -> {"INITIALIZING"}
          [] s = "ERROR"        -> {"IDLE", "STOPPING"}]

\* State names a caller passes: the built-in ones and one more, "*", a legal
\* Python string that add_valid_state accepts like any other.
ExtraStates == {"*"}
StateNames == BuiltinStates \cup ExtraStates

\* Arguments the calls are explored with.
AllowFromArgs == {"INITIALIZING", "*", "UNKNOWN"}
AllowToArgs == {"*"}
CallbackFromArgs == {Some(""), Some("INITIALIZING")}
CallbackToArgs == {NoneV, Some("IDLE")}
DataArgs == {NoneV, Some({}), Some({<<"k", 1>>})}

\* dict.update on dicts held as sets of <<key, value>> pairs
DictUpdate(d, e) == {p \in d : ~ \E q \in e : q[1] = p[1]} \cup e

\* state_machine.py:82  key = f"{from_state or '*'}->{to_state or '*'}"
OrStar(o) == IF IsNone(o) \/ The(o) = "" THEN "*" ELSE The(o)
CallbackKey(from_opt, to_opt) == OrStar(from_opt) \o "->" \o OrStar(to_opt)

\* state_machine.py:147-152  the four patterns, in the order they are tried
Patterns(from_state, to_state) ==
    << from_state \o "->" \o to_state,
       from_state \o "->*",
       "*->" \o to_state,
       "*->*" >>

\* A variant that accepts every valid target, whatever the table says.
CanTransitionIn_AnyValid(valid, allowed, cur, to_state) == to_state \in valid

\* state_machine.py:89-104  can_transition, on explicit machine fields
CanTransitionIn(valid, allowed, cur, to_state) ==
    IF to_state \notin valid THEN FALSE
    ELSE IF cur \notin DOMAIN allowed THEN FALSE
    ELSE to_state \in allowed[cur]

can_transition(to_state) ==
    CanTransitionIn(valid_states, allowed_transitions, current_state, to_state)

\* The callbacks registered so far; each registration gets the next id.
Range(f) == {f[i] : i \in DOMAIN f}
Registered == UNION {Range(transition_callbacks[k]) : k \in DOMAIN transition_callbacks}
KeyOf(cb) == CHOOSE k \in DOMAIN transition_callbacks : cb \in Range(transition_callbacks[k])

\* state_machine.py:155-157  the callbacks the two nested loops visit, in order
CallbacksUnder(pattern) ==
    IF pattern \in DOMAIN transition_callbacks THEN transition_callbacks[pattern] ELSE <<>>
MatchingCallbacks(from_state, to_state) ==
    LET p == Patterns(from_state, to_state)
    IN  CallbacksUnder(p[1]) \o CallbacksUnder(p[2]) \o CallbacksUnder(p[3]) \o CallbacksUnder(p[4])

\* A variant in which the first raising callback ends the loops.
RECURSIVE InvokeEach_Abort(_)
InvokeEach_Abort(cbs) ==
    IF cbs = <<>> THEN <<>>
    ELSE IF Head(cbs) \in sm_raising THEN <<Head(cbs)>>
    ELSE <<Head(cbs)>> \o InvokeEach_Abort(Tail(cbs))

\* state_machine.py:157-164  each callback is called inside its own try/except:
\* an exception is logged and the loop goes on.  The result is the callbacks called.
RECURSIVE InvokeEach(_)
InvokeEach(cbs) ==
    IF cbs = <<>> THEN <<>>
    ELSE IF Head(cbs) \in sm_raising
         THEN <<Head(cbs)>> \o InvokeEach(Tail(cbs))
         ELSE <<Head(cbs)>> \o InvokeEach(Tail(cbs))

\* state_machine.py:139-164
trigger_callbacks(from_state, to_state) == InvokeEach(MatchingCallbacks(from_state, to_state))

\* A variant that checks the source state only.
AllowTransitionAccepts_SourceOnly(from_state, to_state) == from_state \in valid_states

\* state_machine.py:59-62  allow_transition raises ValueError unless both are valid
AllowTransitionAccepts(from_state, to_state) ==
    from_state \in valid_states /\ to_state \in valid_states

\* The record of a call: its name, its target argument (can_transition and
\* transition only) and the machine's state and data as the call found them.
SMCall(op, to_state) ==
    [op |-> op, to |-> to_state, cur |-> current_state, data |-> state_data]

SMInit ==
    /\ valid_states = BuiltinStates
    /\ allowed_transitions = InitialTransitions
    /\ transition_callbacks = [k \in {} |-> <<>>]
    /\ current_state = "INITIALIZING"
    /\ state_data = {}
    /\ sm_raising = {}
    /\ sm_call = [op |-> "init", to |-> "", cur |-> "INITIALIZING", data |-> {}]
    /\ sm_ret = "None"
    /\ sm_invoked = <<>>
    /\ sm_granted = {}

\* state_machine.py:44-50
add_valid_state(state) ==
    /\ valid_states' = valid_states \cup {state}
    /\ sm_call' = SMCall("add_valid_state", "")
    /\ sm_ret' = "None"
    /\ sm_invoked' = <<>>
    /\ UNCHANGED <<allowed_transitions, transition_callbacks, current_state,
                   state_data, sm_raising, sm_granted>>

\* state_machine.py:52-67
allow_transition(from_state, to_state) ==
    /\ sm_call' = SMCall("allow_transition", "")
    /\ sm_invoked' = <<>>
    /\ IF ~ AllowTransitionAccepts(from_state, to_state)
       THEN /\ sm_ret' = "ValueError"
            /\ UNCHANGED <<allowed_transitions, sm_granted>>
       ELSE /\ <<from_state, to_state>> \in sm_granted \/ Cardinality(sm_granted) < MaxAllow
            /\ sm_ret' = "None"
            /\ sm_granted' = sm_granted \cup {<<from_state, to_state>>}
            /\ allowed_transitions' =
                 [k \in DOMAIN allowed_transitions \cup {from_state} |->
                    IF k = from_state
                    THEN (IF k \in DOMAIN allowed_transitions
                          THEN allowed_transitions[k] ELSE {}) \cup {to_state}
                    ELSE allowed_transitions[k]]
    /\ UNCHANGED <<valid_states, transition_callbacks, current_state, state_data, sm_raising>>

\* state_machine.py:69-87
add_transition_callback(raises, from_opt, to_opt) ==
    LET key == CallbackKey(from_opt, to_opt)
        cb  == Cardinality(Registered) + 1
    IN  /\ Cardinality(Registered) < MaxCallbacks
        /\ transition_callbacks' =
             [k \in DOMAIN transition_callbacks \cup {key} |->
                IF k = key
                THEN Append(CallbacksUnder(key), cb)
                ELSE transition_callbacks[k]]
        /\ sm_raising' = IF raises THEN sm_raising \cup {cb} ELSE sm_raising
        /\ sm_call' = SMCall("add_transition_callback", "")
        /\ sm_ret' = "None"
        /\ sm_invoked' = <<>>
        /\ UNCHANGED <<valid_states, allowed_transitions, current_state, state_data, sm_granted>>

\* state_machine.py:89-104, called by a client
can_transition_call(to_state) ==
    /\ sm_call' = SMCall("can_transition", to_state)
    /\ sm_ret' = IF can_transition(to_state) THEN "True" ELSE "False"
    /\ sm_invoked' = <<>>
    /\ UNCHANGED <<valid_states, allowed_transitions, transition_callbacks, current_state,
                   state_data, sm_raising, sm_granted>>

\* state_machine.py:106-137
transition(to_state, data) ==
    /\ sm_call' = SMCall("transition", to_state)
    /\ IF ~ can_transition(to_state)
       THEN /\ sm_ret' = "False"
            /\ sm_invoked' = <<>>
            /\ UNCHANGED <<current_state, state_data>>
       ELSE /\ state_data' = IF ~ IsNone(data) /\ The(data) # {}
                             THEN DictUpdate(state_data, The(data)) ELSE state_data
            /\ current_state' = to_state
            /\ sm_invoked' = trigger_callbacks(current_state, to_state)
            /\ sm_ret' = "True"
    /\ UNCHANGED <<valid_states, allowed_transitions, transition_callbacks, sm_raising, sm_granted>>

\* ------------------------- StateMachine: claims -------------------------

\* The transition table as the design states it (source state, target state),
\* extended by the pairs allow_transition has accepted.
DesignTable ==
    {<<"INITIALIZING", "IDLE">>, <<"INITIALIZING", "ERROR">>,
     <<"IDLE", "PROCESSING">>, <<"IDLE", "RUNNING">>, <<"IDLE", "STOPPING">>, <<"IDLE", "ERROR">>,
     <<"PROCESSING", "IDLE">>, <<"PROCESSING", "ERROR">>,
     <<"RUNNING", "IDLE">>, <<"RUNNING", "STOPPING">>, <<"RUNNING", "ERROR">>,
     <<"STOPPING", "STOPPED">>, <<"STOPPING", "ERROR">>,
     <<"STOPPED", "INITIALIZING">>,
     <<"ERROR", "IDLE">>, <<"ERROR", "STOPPING">>}
TableAllows(from_state, to_state) ==
    /\ to_state \in valid_states
    /\ <<from_state, to_state>> \in DesignTable \cup sm_granted

InvokedCount(cb) == Cardinality({i \in DOMAIN sm_invoked : sm_invoked[i] = cb})
MatchesLastTransition(cb) ==
    KeyOf(cb) \in Range(Patterns(sm_call.cur, sm_call.to))

\* C1: can_transition(t) answers True exactly when t is a valid state and the
\* table allows it from the current state; a transition the table does not allow
\* returns False (it does not raise) and leaves current_state and state_data as
\* they were.
C1_CanTransitionReflectsTable ==
    /\ sm_call.op = "can_transition" =>
         ((sm_ret = "True") <=> TableAllows(sm_call.cur, sm_call.to))
    /\ (sm_call.op = "transition" /\ ~ TableAllows(sm_call.cur, sm_call.to)) =>
         /\ sm_ret = "False"
         /\ current_state = sm_call.cur
         /\ state_data = sm_call.data

\* a transition to a valid state was refused while state_data was not empty
C1_Witness ==
    /\ sm_call.op = "transition"
    /\ sm_ret = "False"
    /\ sm_call.to \in valid_states
    /\ sm_call.data # {}

\* C2 (as claimed): on a successful transition every registration under one of the
\* four patterns is invoked exactly once and no other registration is invoked;
\* a rejected transition invokes nothing.
C2_EachMatchingCallbackExactlyOnce ==
    sm_call.op = "transition" =>
        IF sm_ret = "True"
        THEN \A cb \in Registered :
                InvokedCount(cb) = IF MatchesLastTransition(cb) THEN 1 ELSE 0
        ELSE sm_invoked = <<>>

\* C3: when a matching callback raises, the transition still succeeds (it returns
\* True and current_state is the target) and every matching callback, registered
\* before or after the failing one, is invoked.
C3_RaisingCallbackDoesNotBlock ==
    (/\ sm_call.op = "transition"
     /\ TableAllows(sm_call.cur, sm_call.to)
     /\ \E cb \in Registered : cb \in sm_raising /\ MatchesLastTransition(cb)) =>
        /\ sm_ret = "True"
        /\ current_state = sm_call.to
        /\ \A cb \in Registered : MatchesLastTransition(cb) => InvokedCount(cb) >= 1

\* a raising callback ran first and another callback ran after it
C3_Witness ==
    /\ sm_call.op = "transition"
    /\ sm_ret = "True"
    /\ Len(sm_invoked) >= 2
    /\ sm_invoked[1] \in sm_raising
    /\ sm_invoked[2] \notin sm_raising

\* C4: current_state is a valid state, and every key of allowed_transitions and
\* every member of every value set is a valid state.
C4_TableWithinValidStates ==
    /\ current_state \in valid_states
    /\ \A k \in DOMAIN allowed_transitions :
          k \in valid_states /\ allowed_transitions[k] \subseteq valid_states

\* the machine sits in a state that was added and allowed at run time, and an
\* allow_transition call has just been refused with ValueError
C4_Witness ==
    /\ current_state \in ExtraStates
    /\ sm_granted # {}
    /\ sm_ret = "ValueError"

\* ========================================================================
\*                    AGENT RUNTIME (BaseAgent) AND PERSISTENCE
\* ========================================================================

\* ----------------------------- bounds -----------------------------------
\* messages a history may hold
MaxMsgs == 3
\* the clock runs from 0 to MaxTime
MaxTime == 2
\* the configured agent.save_interval, in clock ticks
SaveInterval == 2
\* callbacks the caller registers in each of the two lists
MaxObservers == 2

\* base.py:236  get_config("agent.max_idle_loops", 5)
MaxIdleLoops == 5

VARIABLES
    status,            \* AgentState.status
    messages,          \* AgentState.messages
    error,             \* AgentState.error (optional)
    system_prompt,     \* BaseAgent.system_prompt (configuration)
    auto_save,         \* BaseAgent.auto_save (configuration)
    persistence,       \* BaseAgent.persistence is attached
    on_state_change,   \* BaseAgent._on_state_change, the callbacks in order
    on_message,        \* BaseAgent._on_message, the callbacks in order
    last_save_time,    \* BaseAgent.last_save_time (optional)
    file,              \* the agent's state file on disk
    now,               \* the clock datetime.now() reads
    pc,                \* where the caller's task is suspended
    count,             \* run(): the loop counter, 0 once another call has begun
    grown,             \* by how many messages the history has grown, up to MaxMsgs
    call,              \* the call in progress, or the last one: name, input, the history
                       \* and the state-change callbacks it found
    ret,               \* how the last call ended
    oplog,             \* what the call in progress (or the last one) did, in order
    saving             \* the save the caller's task is suspended in (optional): its
                       \* snapshot, the time it read, and what the task does after it

agvars == <<status, messages, error, system_prompt, auto_save, on_message, persistence,
            on_state_change, last_save_time, file, now, pc, count, grown, call, ret, oplog,
            saving>>

\* What an observer of the state file has noted down, for the claims about the
\* auto-save: kept beside the program, read by no action of it.
VARIABLES
    last_write,        \* the time read by the save that last wrote the state file in
                       \* full (optional)
    auto_writes,       \* for every write of the file by the auto-save, in order,
                       \* the time its save had read and the time of the write
    changes            \* the last two notifications of a state change that ran the
                       \* auto-save: when, what became of the auto-save, and what
                       \* the explicit saves after it did

wrvars == <<last_write, auto_writes, changes>>

\* A TokenManager and one use of it.
VARIABLES
    max_tokens,          \* TokenManager.max_tokens
    reserved_tokens,     \* TokenManager.reserved_tokens
    max_context_tokens,  \* TokenManager.max_context_tokens
    tk_messages,         \* truncate_messages: the messages argument
    tk_priorities,       \* truncate_messages: the priorities argument (optional)
    tk_overhead,         \* the counting capability: what a message adds to the
                         \* cost of a collection beyond the cost of its content
    tk_result,           \* what truncate_messages returned (optional)
    tk_again             \* what it returned when given its own result (optional)

tkvars == <<max_tokens, reserved_tokens, max_context_tokens, tk_messages, tk_priorities,
            tk_overhead, tk_result, tk_again>>

\* A StatePersistence, its state file, and the calls made on it.
VARIABLES
    ps_state,            \* the AgentState the caller holds and passes to save_state
    ps_file,             \* the file at StatePersistence.state_file
    ps_saved,            \* the state of the last save that returned True, while
                         \* its file has not been deleted (optional)
    ps_call,             \* the call that ended last: its name, what the file system
                         \* did to it, the file it found, the call before it
    ps_ret,              \* what the call that ended last returned or raised
    ps_saving            \* the save_state the caller is suspended in (optional): the
                         \* state it was given, its snapshot, whether the write is done

psvars == <<ps_state, ps_file, ps_saved, ps_call, ps_ret, ps_saving>>

\* An AgentSession, the two directories it works on, and its callers.
VARIABLES
    active_sessions,     \* AgentSession.active_sessions: session id -> Runtime
    ss_order,            \* the keys of active_sessions in the order of their insertion
    ss_meta,             \* sessions_dir: session id -> metadata file
    ss_state_files,      \* data_dir: the ids that have an agent state file
    ss_runtimes,         \* the ids of the Runtimes create_agent has returned to
                         \* this process: objects that live on, and can save, after
                         \* the cache has let go of them
    ss_task,             \* each task: idle, or suspended in create_agent or in the
                         \* cleanup of a Runtime
    ss_last              \* the call that ended last

ssvars == <<active_sessions, ss_order, ss_meta, ss_state_files, ss_runtimes, ss_task,
           ss_last>>

VARIABLES
    handle_retry,        \* one call of BaseLLM._handle_retry: its arguments, its
                         \* locals, the requests made and the delays slept (optional)
    history_call         \* one call of MessageHandler.truncate_message_history:
                         \* its arguments and what it returned (optional)

llvars == <<handle_retry, history_call>>

vars == <<smvars, agvars, wrvars, tkvars, psvars, ssvars, llvars>>

\* state.py:10-15
RoleSystem == "system"
RoleUser == "user"
RoleAssistant == "assistant"

\* state.py:18-23  (the timestamp is informational and left out)
Message(role, content) == [role |-> role, content |-> content]

\* Inputs the calls are explored with.
UserInputs == {"hi"}
ThinkOutcomes ==
    {[kind |-> "value", text |-> TRUE, val |-> "ok"],      \* think() returns a str
     [kind |-> "value", text |-> FALSE, val |-> "dict"],   \* think() returns a dict
     [kind |-> "raise", text |-> FALSE, val |-> "boom"],   \* think() raises an Exception
     [kind |-> "cancelled", text |-> FALSE, val |-> ""]}   \* the task is cancelled in think()
SaveOutcomes == {"ok", "open_fails", "write_fails"}
SetStateArgs == {"IDLE", "PAUSED"}
SetStateErrors == {NoneV}
\* The callbacks a caller registers: "obs" returns, "bad" raises.
ObserverKinds == {"obs", "bad"}
RaisingObservers == {"bad"}
NoRet == [kind |-> "none", text |-> FALSE, val |-> ""]
Returned(v) == [kind |-> "value", text |-> FALSE, val |-> v]

Event(ev, arg) == [ev |-> ev, arg |-> arg]

\* The part of the program a helper reads and writes, as one record.
World ==
    [status |-> status, messages |-> messages, error |-> error,
     persistence |-> persistence, on_state_change |-> on_state_change,
     last_save_time |-> last_save_time, file |-> file, log |-> oplog,
     saving |-> saving]

\* The bound on the histories: by how many messages the history has grown since
\* construction after a step that changes its length by d, counted up to MaxMsgs.
Grown(d) ==
    IF d <= 0 THEN grown
    ELSE IF grown + d >= MaxMsgs THEN MaxMsgs ELSE grown + d

Commit(w) ==
    /\ status' = w.status
    /\ messages' = w.messages
    /\ error' = w.error
    /\ persistence' = w.persistence
    /\ on_state_change' = w.on_state_change
    /\ last_save_time' = w.last_save_time
    /\ file' = w.file
    /\ oplog' = w.log
    /\ saving' = w.saving
    /\ grown' = Grown(Len(w.messages) - Len(messages))

Logged(w, ev, arg) == [w EXCEPT !.log = Append(@, Event(ev, arg))]

\* state.py:55-64  AgentState.to_dict
ToDict(w) == [status |-> w.status, messages |-> w.messages, error |-> w.error]

AbsentFile == [kind |-> "absent", data |-> ToDict([status |-> "", messages |-> <<>>, error |-> NoneV])]
CorruptFile == [kind |-> "corrupt", data |-> AbsentFile.data]
StateFile(d) == [kind |-> "state", data |-> d]

\* A variant that puts the new message first.
add_message_Prepend(w, m) == [w EXCEPT !.messages = <<m>> \o @]

\* state.py:51-53
add_message(w, m) == [w EXCEPT !.messages = Append(@, m)]

\* persistence.py:51-58  _save_to_file, the write of the snapshot state_dict over
\* the file f: <<the file left, the result>>.  open(..., 'w') either fails and
\* leaves the file alone, or truncates it; a failure of json.dump after that
\* leaves a partial file.
PersistenceSave(f, state_dict, outcome) ==
    CASE outcome = "ok"          -> <<StateFile(state_dict), TRUE>>
      [] outcome = "open_fails"  -> <<f, FALSE>>
      [] outcome = "write_fails" -> <<CorruptFile, FALSE>>

\* persistence.py:78-100  StatePersistence.load_state: the loaded state, or None
PersistenceLoad(f) == IF f.kind = "state" THEN Some(f.data) ELSE NoneV

\* A variant without the early return: it wires again on every call.
init_persistence_NoGuard(w) ==
    [w EXCEPT !.persistence = TRUE,
              !.on_state_change = IF auto_save THEN Append(@, "auto_save") ELSE @]

\* base.py:85-99
init_persistence(w) ==
    IF w.persistence THEN w
    ELSE [w EXCEPT !.persistence = TRUE,
                   !.on_state_change = IF auto_save THEN Append(@, "auto_save") ELSE @]

\* A save is made in three steps of the event loop.  StatePersistence.save_state
\* awaits asyncio.wait_for(_save_to_file(), 3.0) (persistence.py:64), which up
\* to Python 3.11 runs the write as a task of its own and suspends the caller:
\* the caller's task runs up to the await, the write runs, the caller resumes.
\* Other tasks run in between.  From Python 3.12 on wait_for awaits in place:
\* the same three steps follow each other with no other task between them.

\* how a call of save_state() ends: with the result of its save
SaveResult == [kind |-> "save_result", text |-> FALSE, val |-> ""]

\* base.py:101-115 with persistence.py:45-64  save_state, up to the await: the
\* persistence is attached, the time is read (base.py:112), the snapshot of the
\* state is taken (persistence.py:45) and the write is left to its task.  via
\* records who asked ("direct" or "auto"); rest, pc and ret are what the caller
\* of the save still has to do, filled in by it.
save_state(w, via) ==
    LET w1 == init_persistence(w)
    IN  [w1 EXCEPT !.saving =
            Some([stage |-> "snapshot", state_dict |-> ToDict(w1), now |-> now,
                  via |-> via, success |-> FALSE, rest |-> <<>>,
                  pc |-> "", ret |-> NoRet])]

\* persistence.py:50-72  the write of the save p, by its task: outcome is what
\* the file system does this time, success what save_state will return
save_to_file(w, p, outcome) ==
    LET r == PersistenceSave(w.file, p.state_dict, outcome)
    IN  Logged([w EXCEPT !.file = r[1]], "save_" \o p.via, IF r[2] THEN "True" ELSE "False")

\* the save p, its write done
Written(p, outcome) ==
    [p EXCEPT !.stage = "written",
              !.success = PersistenceSave(AbsentFile, p.state_dict, outcome)[2]]

\* A variant that records the time of the attempt, whatever its result.
save_state_resumed_StampAlways(w, p) ==
    [w EXCEPT !.last_save_time = Some(p.now), !.saving = NoneV]

\* base.py:115-122  save_state, from the await on: a save that succeeded leaves
\* the time read before it in last_save_time
save_state_resumed(w, p) ==
    [w EXCEPT !.last_save_time = IF p.success THEN Some(p.now) ELSE @,
              !.saving = NoneV]

\* the callbacks cbs wait for the save w is suspended in
Waiting(w, cbs) == [w EXCEPT !.saving = Some([The(@) EXCEPT !.rest = cbs])]

\* what the caller's task does once the save w is suspended in is over: it goes
\* on to next_pc, a call that ends there returning r
Then(w, next_pc, r) ==
    IF IsNone(w.saving) THEN w
    ELSE [w EXCEPT !.saving = Some([The(@) EXCEPT !.pc = next_pc, !.ret = r])]

\* A variant whose window includes its end.
Throttled_Inclusive(last, t) == ~ IsNone(last) /\ t - The(last) <= SaveInterval

\* base.py:149  the throttle test of _auto_save_callback
Throttled(last, t) == ~ IsNone(last) /\ t - The(last) < SaveInterval

\* base.py:144-157
auto_save_callback(w) ==
    IF Throttled(w.last_save_time, now)
    THEN Logged(w, "autosave_skip", "")
    ELSE save_state(w, "auto")

\* base.py:338-346  one callback of _notify_state_change, inside its try/except:
\* a callback that raises has run up to its raise, and the exception is logged
InvokeStateCallback(w, cb) ==
    IF cb = "auto_save" THEN auto_save_callback(w)
    ELSE Logged(w, "callback", cb)

\* A variant that starts with the callback registered last.
RECURSIVE NotifyEach_Reversed(_, _)
NotifyEach_Reversed(w, cbs) ==
    IF cbs = <<>> THEN w
    ELSE LET n == Len(cbs)
             w1 == InvokeStateCallback(w, cbs[n])
         IN  IF IsNone(w1.saving)
             THEN NotifyEach_Reversed(w1, SubSeq(cbs, 1, n - 1))
             ELSE Waiting(w1, SubSeq(cbs, 1, n - 1))

\* A variant whose try/except is around the whole loop: the first callback that
\* raises ends the notification.
RECURSIVE NotifyEach_StopAtRaise(_, _)
NotifyEach_StopAtRaise(w, cbs) ==
    IF cbs = <<>> THEN w
    ELSE LET w1 == InvokeStateCallback(w, Head(cbs))
         IN  IF Head(cbs) \in RaisingObservers THEN w1
             ELSE IF IsNone(w1.saving)
             THEN NotifyEach_StopAtRaise(w1, Tail(cbs))
             ELSE Waiting(w1, Tail(cbs))

\* base.py:335-346  the loop over the callbacks, each awaited in turn: it runs
\* to its end, or to the await inside the save of the auto-save callback, after
\* which it goes on with the callbacks behind it
RECURSIVE NotifyEach(_, _)
NotifyEach(w, cbs) ==
    IF cbs = <<>> THEN w
    ELSE LET w1 == InvokeStateCallback(w, Head(cbs))
         IN  IF IsNone(w1.saving) THEN NotifyEach(w1, Tail(cbs))
             ELSE Waiting(w1, Tail(cbs))

\* base.py:350-354  the loop of _notify_message, each call inside its try/except
RECURSIVE NotifyMessageEach(_, _)
NotifyMessageEach(w, cbs) ==
    IF cbs = <<>> THEN w
    ELSE NotifyMessageEach(Logged(w, "message_callback", Head(cbs)), Tail(cbs))

\* base.py:348-354
notify_message(w) == NotifyMessageEach(w, on_message)

notify_state_change(w) == NotifyEach(w, w.on_state_change)

\* A variant that notifies the subscribers, as _change_state does.
set_state_Notifying(w, st, err) ==
    LET w1 == [w EXCEPT !.status = st, !.error = IF IsNone(err) THEN @ ELSE err]
    IN  notify_state_change(Logged(w1, "set_status", st))

\* base.py:276-292  set_state: no callbacks
set_state(w, st, err) ==
    LET w1 == [w EXCEPT !.status = st, !.error = IF IsNone(err) THEN @ ELSE err]
    IN  Logged(w1, "set_status", st)

\* A variant that skips the notification.
change_state_NoNotify(w, st, err) ==
    Logged([w EXCEPT !.status = st, !.error = IF IsNone(err) THEN @ ELSE err], "status", st)

\* base.py:298-317
change_state(w, st, err) ==
    LET w1 == [w EXCEPT !.status = st, !.error = IF IsNone(err) THEN @ ELSE err]
    IN  notify_state_change(Logged(w1, "status", st))

\* A call begins: the call record, and run()'s counter, a local of the call
\* before, is gone.
StartCall(name, input) ==
    /\ call' = [name |-> name, input |-> input, before |-> messages,
                cbs |-> on_state_change]
    /\ ret' = NoRet
    /\ count' = 0

Fresh == [World EXCEPT !.log = <<>>]

AgentInit ==
    /\ status = "IDLE"
    /\ messages = <<>>
    /\ error = NoneV
    /\ system_prompt = "sys"      \* a configured agent.system_prompt
    /\ auto_save = TRUE           \* base.py:51  the default of agent.auto_save
    /\ persistence = FALSE
    /\ on_state_change = <<>>
    /\ on_message = <<>>
    /\ last_save_time = NoneV
    /\ file = AbsentFile
    /\ now = 0
    /\ pc = "idle"
    /\ count = 0
    /\ grown = 0
    /\ saving = NoneV
    /\ call = [name |-> "init", input |-> "", before |-> <<>>, cbs |-> <<>>]
    /\ ret = NoRet
    /\ oplog = <<>>

\* time passes while the caller is idle or its task is suspended
Tick ==
    /\ pc \in {"idle", "thinking", "run_sleep", "saving"}
    /\ now < MaxTime
    /\ now' = now + 1
    /\ UNCHANGED <<status, messages, error, system_prompt, auto_save, on_message, persistence,
                   on_state_change, last_save_time, file, pc, count, grown, call, ret, oplog,
                   saving>>

\* The caller's task has run to w: it is at next_pc, or suspended in a save
\* after which it goes on to next_pc.
Goes(w, next_pc, r) ==
    /\ Commit(Then(w, next_pc, r))
    /\ pc' = IF IsNone(w.saving) THEN next_pc ELSE "saving"

\* The same for a step that ends a call, which returns or raises r.
Ends(w, r) ==
    /\ Goes(w, "idle", r)
    /\ ret' = IF IsNone(w.saving) THEN r ELSE ret

\* persistence.py:50-72  the event loop runs the task of the write
save_write(outcome) ==
    /\ pc = "saving"
    /\ The(saving).stage = "snapshot"
    /\ Commit([save_to_file(World, The(saving), outcome) EXCEPT
                  !.saving = Some(Written(The(saving), outcome))])
    /\ UNCHANGED <<system_prompt, auto_save, on_message, now, pc, count, call, ret>>

\* base.py:115-122, 335-346  the event loop resumes the caller's task after the
\* write: save_state returns to what awaited it, the callbacks behind the
\* auto-save run, and the step of the caller goes on to its end
save_resume ==
    /\ pc = "saving"
    /\ The(saving).stage = "written"
    /\ LET p == The(saving)
           w == NotifyEach(save_state_resumed(World, p), p.rest)
           r == IF p.ret = SaveResult
                THEN Returned(IF p.success THEN "True" ELSE "False") ELSE p.ret
       IN  /\ Goes(w, p.pc, p.ret)
           /\ ret' = IF IsNone(w.saving) THEN r ELSE ret
    /\ UNCHANGED <<system_prompt, auto_save, on_message, now, count, call>>

\* base.py:64-83
initialize ==
    /\ pc = "idle"
    /\ system_prompt # "" => Len(messages) < MaxMsgs
    /\ StartCall("initialize", "")
    /\ LET w1 == init_persistence(Fresh)
           w2 == IF system_prompt # ""
                 THEN add_message(w1, Message(RoleSystem, system_prompt)) ELSE w1
       IN  Commit(w2)
    /\ UNCHANGED <<system_prompt, auto_save, on_message, now, pc>>

\* base.py:170-180  process(): the user message, its callbacks, the change to
\* PROCESSING
process_until_think(w, user_input) ==
    LET w1 == notify_message(add_message(w, Message(RoleUser, user_input)))
    IN  change_state(w1, "PROCESSING", NoneV)

\* base.py:159-180  process(), up to the await of think()
process_begin(user_input) ==
    /\ pc = "idle"
    /\ Len(messages) + 2 <= MaxMsgs
    /\ StartCall("process", user_input)
    /\ Goes(process_until_think(Fresh, user_input), "thinking", NoRet)
    /\ UNCHANGED <<system_prompt, auto_save, on_message, now>>

\* base.py:185-204  process(): what follows think() returning or raising
process_after_think(w0, result) ==
    CASE result.kind = "value" ->
           LET w1 == IF result.text
                     THEN notify_message(
                              add_message(w0, Message(RoleAssistant, result.val)))
                     ELSE w0
           IN  change_state(w1, "IDLE", NoneV)
      [] result.kind = "raise" ->
           change_state(w0, "ERROR", Some(result.val))
      [] result.kind = "cancelled" ->
           \* CancelledError is not an Exception: no handler runs
           w0

\* base.py:182-204  process(), from the end of think() on
process_end(result) ==
    /\ pc = "thinking"
    /\ Ends(process_after_think(World, result), result)
    /\ UNCHANGED <<system_prompt, auto_save, on_message, now, count, call>>

\* A variant that forgets to count the iteration.
NextCount_Stuck(c) == c

\* base.py:239  count += 1
NextCount(c) == c + 1

\* base.py:238  the loop condition of run()
RunLoopContinues(st, c) == st = "RUNNING" /\ c < MaxIdleLoops

\* base.py:223-236  run(), up to the loop
run_begin ==
    /\ pc = "idle"
    /\ StartCall("run", "")
    /\ Commit(set_state(Fresh, "RUNNING", NoneV))
    /\ pc' = "run_loop"
    /\ UNCHANGED <<system_prompt, auto_save, on_message, now>>

\* base.py:238-241  one test of the loop condition; then the sleep, or
\* base.py:243-256  the way out through the finally block
run_loop ==
    /\ pc = "run_loop"
    /\ IF RunLoopContinues(status, count)
       THEN /\ count' = NextCount(count)
            /\ pc' = "run_sleep"
            /\ UNCHANGED <<status, messages, error, persistence, on_state_change,
                           last_save_time, file, grown, oplog, ret, saving>>
       ELSE /\ pc' = "idle"
            /\ Commit(set_state(World, "IDLE", NoneV))
            /\ ret' = Returned("None")
            /\ UNCHANGED count
    /\ UNCHANGED <<system_prompt, auto_save, on_message, now, call>>

\* base.py:241  asyncio.sleep(0.5) is over
run_wake ==
    /\ pc = "run_sleep"
    /\ pc' = "run_loop"
    /\ UNCHANGED <<status, messages, error, system_prompt, auto_save, on_message, persistence,
                   on_state_change, last_save_time, file, now, count, grown, call, ret, oplog, saving>>

\* base.py:241, 253-256  the task is cancelled in the sleep: CancelledError is
\* not an Exception, so only the finally block runs
run_cancelled ==
    /\ pc = "run_sleep"
    /\ pc' = "idle"
    /\ Commit(set_state(World, "IDLE", NoneV))
    /\ ret' = [kind |-> "cancelled", text |-> FALSE, val |-> ""]
    /\ UNCHANGED <<system_prompt, auto_save, on_message, now, count, call>>

\* base.py:264  cleanup(): the change to STOPPING
cleanup_begin ==
    /\ pc = "idle"
    /\ StartCall("cleanup", "")
    /\ Goes(change_state(Fresh, "STOPPING", NoneV), "cleanup_save", NoRet)
    /\ UNCHANGED <<system_prompt, auto_save, on_message, now>>

\* A variant that saves through the throttled callback.
CleanupSave_Throttled(w) == auto_save_callback(w)

\* base.py:268  cleanup(): await self.save_state()
CleanupSave(w) == save_state(w, "direct")

cleanup_save ==
    /\ pc = "cleanup_save"
    /\ Goes(CleanupSave(World), "cleanup_end", ret)
    /\ UNCHANGED <<system_prompt, auto_save, on_message, now, count, call, ret>>

\* base.py:273-274  cleanup(): the change to STOPPED
cleanup_end ==
    /\ pc = "cleanup_end"
    /\ Ends(change_state(World, "STOPPED", NoneV), Returned("None"))
    /\ UNCHANGED <<system_prompt, auto_save, on_message, now, count, call>>

\* base.py:276-292  set_state called by the caller, or by another task while
\* run() sleeps
set_state_call(st, err) ==
    /\ pc \in {"idle", "run_sleep"}
    /\ IF pc = "idle"
       THEN /\ StartCall("set_state", st)
            /\ Commit(set_state(Fresh, st, err))
       ELSE \* the other task's call is not part of what run() did
            /\ Commit([set_state(World, st, err) EXCEPT !.log = oplog])
            /\ UNCHANGED <<call, ret, count>>
    /\ UNCHANGED <<system_prompt, auto_save, on_message, now, pc>>

\* base.py:101-122  save_state called by the caller
save_state_call ==
    /\ pc = "idle"
    /\ count' = 0
    /\ call' = [name |-> "save_state", input |-> "", before |-> messages,
                cbs |-> on_state_change]
    /\ ret' = NoRet
    /\ Goes(save_state(Fresh, "direct"), "idle", SaveResult)
    /\ UNCHANGED <<system_prompt, auto_save, on_message, now>>

\* state.py:66-71  AgentState.from_dict
FromDict(d) == [status |-> d.status, messages |-> d.messages, error |-> d.error]

\* A variant that falls back to a default AgentState when nothing was loaded.
load_state_ResetOnFailure(w) ==
    LET w1 == init_persistence(w)
        loaded == PersistenceLoad(w1.file)
        st == IF IsNone(loaded)
              THEN [status |-> "IDLE", messages |-> <<>>, error |-> NoneV]
              ELSE FromDict(The(loaded))
    IN  Logged([w1 EXCEPT !.status = st.status, !.messages = st.messages,
                          !.error = st.error],
               "load", IF IsNone(loaded) THEN "False" ELSE "True")

\* base.py:124-142
load_state(w) ==
    LET w1 == init_persistence(w)
        loaded == PersistenceLoad(w1.file)
    IN  IF ~ IsNone(loaded)
        THEN LET st == FromDict(The(loaded))
             IN  Logged([w1 EXCEPT !.status = st.status, !.messages = st.messages,
                                   !.error = st.error], "load", "True")
        ELSE Logged(w1, "load", "False")

load_state_call ==
    /\ pc = "idle"
    /\ count' = 0
    /\ call' = [name |-> "load_state", input |-> "", before |-> messages,
                cbs |-> on_state_change]
    /\ LET w == load_state(Fresh)
       IN  /\ Commit(w)
           /\ ret' = Returned(w.log[Len(w.log)].arg)
    /\ UNCHANGED <<system_prompt, auto_save, on_message, now, pc>>

\* base.py:319-325
add_state_change_callback(cb) ==
    /\ pc = "idle"
    /\ Cardinality({i \in DOMAIN on_state_change : on_state_change[i] # "auto_save"})
          < MaxObservers
    /\ StartCall("add_state_change_callback", cb)
    /\ on_state_change' = Append(on_state_change, cb)
    /\ oplog' = <<>>
    /\ UNCHANGED <<status, messages, error, system_prompt, auto_save, on_message, persistence,
                   last_save_time, file, grown, now, pc, saving>>

\* base.py:327-333
add_message_callback(cb) ==
    /\ pc = "idle"
    /\ Len(on_message) < MaxObservers
    /\ StartCall("add_message_callback", cb)
    /\ on_message' = Append(on_message, cb)
    /\ oplog' = <<>>
    /\ UNCHANGED <<status, messages, error, system_prompt, auto_save, persistence,
                   on_state_change, last_save_time, file, grown, now, pc, saving>>

IsSystemMessage(m) == m.role = RoleSystem

\* A variant that drops every message, whatever it is asked to keep.
clear_history_All(w, keep_system) == [w EXCEPT !.messages = <<>>]

\* base.py:392-403
clear_history(w, keep_system) ==
    [w EXCEPT !.messages = IF keep_system THEN SelectSeq(@, IsSystemMessage) ELSE <<>>]

\* base.py:392-403  clear_history called by the caller: no callback runs and
\* nothing is saved
clear_history_call(keep_system) ==
    /\ pc = "idle"
    /\ StartCall("clear_history", "")
    /\ Commit(clear_history(Fresh, keep_system))
    /\ UNCHANGED <<system_prompt, auto_save, on_message, now, pc>>

\* base.py:294-296  notify_state_change called by the caller: the state-change
\* callbacks run although the status has not changed
notify_state_change_call ==
    /\ pc = "idle"
    /\ StartCall("notify_state_change", "")
    /\ Goes(notify_state_change(Logged(Fresh, "notify", "")), "idle", NoRet)
    /\ UNCHANGED <<system_prompt, auto_save, on_message, now>>

\* The calls a caller can make on one Runtime, in any order.  clear_history()
\* lets a history grow again: the calls that add messages are explored while the
\* history has grown by less than MaxMsgs in all.
AgentNext ==
    \/ Tick /\ UNCHANGED <<smvars, wrvars, tkvars, psvars, ssvars, llvars>>
    \/ (system_prompt # "" => grown < MaxMsgs) /\ initialize /\ UNCHANGED <<smvars, wrvars, tkvars, psvars, ssvars, llvars>>
    \/ \E u \in UserInputs : grown + 2 <= MaxMsgs /\ process_begin(u) /\ UNCHANGED <<smvars, wrvars, tkvars, psvars, ssvars, llvars>>
    \/ \E r \in ThinkOutcomes : process_end(r) /\ UNCHANGED <<smvars, wrvars, tkvars, psvars, ssvars, llvars>>
    \/ run_begin /\ UNCHANGED <<smvars, wrvars, tkvars, psvars, ssvars, llvars>>
    \/ run_loop /\ UNCHANGED <<smvars, wrvars, tkvars, psvars, ssvars, llvars>>
    \/ run_wake /\ UNCHANGED <<smvars, wrvars, tkvars, psvars, ssvars, llvars>>
    \/ run_cancelled /\ UNCHANGED <<smvars, wrvars, tkvars, psvars, ssvars, llvars>>
    \/ cleanup_begin /\ UNCHANGED <<smvars, wrvars, tkvars, psvars, ssvars, llvars>>
    \/ cleanup_save /\ UNCHANGED <<smvars, wrvars, tkvars, psvars, ssvars, llvars>>
    \/ cleanup_end /\ UNCHANGED <<smvars, wrvars, tkvars, psvars, ssvars, llvars>>
    \/ \E st \in SetStateArgs, e \in SetStateErrors : set_state_call(st, e) /\ UNCHANGED <<smvars, wrvars, tkvars, psvars, ssvars, llvars>>
    \/ save_state_call /\ UNCHANGED <<smvars, wrvars, tkvars, psvars, ssvars, llvars>>
    \/ load_state_call /\ UNCHANGED <<smvars, wrvars, tkvars, psvars, ssvars, llvars>>
    \/ \E k \in BOOLEAN : clear_history_call(k) /\ UNCHANGED <<smvars, wrvars, tkvars, psvars, ssvars, llvars>>
    \/ notify_state_change_call /\ UNCHANGED <<smvars, wrvars, tkvars, psvars, ssvars, llvars>>
    \/ \E o \in SaveOutcomes : save_write(o) /\ UNCHANGED <<smvars, wrvars, tkvars, psvars, ssvars, llvars>>
    \/ save_resume /\ UNCHANGED <<smvars, wrvars, tkvars, psvars, ssvars, llvars>>

\* ========================================================================
\*                              TOKEN MANAGER
\* ========================================================================

\* messages a collection given to truncate_messages may hold
MaxTkMsgs == 3

\* token.py:11-17  TokenPriority
TokenPriorities == {"SYSTEM", "CRITICAL", "HIGH", "NORMAL", "LOW"}
TokenPriorityValue(p) ==
    CASE p = "SYSTEM" -> 0
      [] p = "CRITICAL" -> 1
      [] p = "HIGH" -> 2
      [] p = "NORMAL" -> 3
      [] p = "LOW" -> 4

\* Inputs the manager is explored with: <<max_tokens, reserved_tokens>>, the
\* token cost of a message's content, and the counting capability's overhead.
TkManagers == {<<100, 20>>, <<60, 20>>}
TkCosts == {30, 40, 50}
TkRoles == {"system", "user"}
TkOverheads == {0, 5}

\* A message as truncate_messages reads it: its role and its content, the
\* content standing for what llm.count_tokens makes of it.
TkMessage(role, cost) == [role |-> role, content |-> cost]

\* the collections of n messages with roles from a set
TkCollections(n, roles) == [1..n -> {TkMessage(r, c) : r \in roles, c \in TkCosts}]

\* llm.count_tokens(messages[idx]["content"]), token.py:99
count_tokens(m) == m.content

\* llm.count_message_tokens / token_count_func, token.py:72-75 and 114-117: the
\* cost of a collection, which is not the sum of the costs of the contents
RECURSIVE count_message_tokens(_, _)
count_message_tokens(ms, overhead) ==
    IF ms = <<>> THEN 0
    ELSE count_tokens(Head(ms)) + overhead + count_message_tokens(Tail(ms), overhead)

\* A variant that reserves nothing for the reply.
MaxContextTokens_NoReserve(maxt, reserved) == maxt

\* token.py:41
MaxContextTokens(maxt, reserved) == maxt - reserved

\* token.py:62-69  the default priorities, keyed by position (from 1 here)
DefaultPriorities(ms) ==
    [i \in 1..Len(ms) |-> IF ms[i].role = "system" THEN "SYSTEM" ELSE "NORMAL"]

\* dict.get(idx, default)
PriorityGet(pri, idx, default) == IF idx \in DOMAIN pri THEN pri[idx] ELSE default

\* token.py:87  the sort key
SortKey(pri, idx) == TokenPriorityValue(PriorityGet(pri, idx, "NORMAL"))

\* A variant that puts an index before the earlier ones of equal key.
RECURSIVE SortedIndices_LatestFirst(_, _)
SortedIndices_LatestFirst(n, pri) ==
    IF n = 0 THEN <<>>
    ELSE LET prev == SortedIndices_LatestFirst(n - 1, pri)
             k == Cardinality({j \in DOMAIN prev : SortKey(pri, prev[j]) > SortKey(pri, n)})
         IN  SubSeq(prev, 1, k) \o <<n>> \o SubSeq(prev, k + 1, Len(prev))

\* token.py:85-89  sorted(range(len(messages)), key=..., reverse=True): by falling
\* key, indices of equal key in their original order (the sort is stable, also
\* with reverse=True)
RECURSIVE SortedIndices(_, _)
SortedIndices(n, pri) ==
    IF n = 0 THEN <<>>
    ELSE LET prev == SortedIndices(n - 1, pri)
             k == Cardinality({j \in DOMAIN prev : SortKey(pri, prev[j]) >= SortKey(pri, n)})
         IN  SubSeq(prev, 1, k) \o <<n>> \o SubSeq(prev, k + 1, Len(prev))

\* A variant that protects nothing.
SkipsSystem_Never(pri, idx) == FALSE

\* token.py:95  priorities.get(idx) == TokenPriority.SYSTEM
SkipsSystem(pri, idx) == PriorityGet(pri, idx, "None") = "SYSTEM"

\* token.py:92-108  the eviction loop from position k of the order on: the
\* removed_indices it ends with
RECURSIVE EvictLoop(_, _, _, _, _, _)
EvictLoop(ms, pri, order, k, removed_indices, tokens_to_remove) ==
    IF k > Len(order) THEN removed_indices
    ELSE LET idx == order[k]
             msg_tokens == count_tokens(ms[idx])
         IN  IF SkipsSystem(pri, idx)
             THEN EvictLoop(ms, pri, order, k + 1, removed_indices, tokens_to_remove)
             ELSE IF msg_tokens <= tokens_to_remove
                  THEN IF tokens_to_remove - msg_tokens <= 0
                       THEN removed_indices \cup {idx}
                       ELSE EvictLoop(ms, pri, order, k + 1, removed_indices \cup {idx},
                                      tokens_to_remove - msg_tokens)
                  ELSE EvictLoop(ms, pri, order, k + 1, removed_indices, tokens_to_remove)

\* the indices of a collection of n messages outside a set, in order
KeptIndices(n, removed_indices) ==
    LET kept == (1..n) \ removed_indices
    IN  [j \in 1..Cardinality(kept) |->
            CHOOSE i \in kept : Cardinality({k \in kept : k < i}) = j - 1]

\* token.py:111  the messages whose index was not removed
Without(ms, removed_indices) ==
    LET kept == KeptIndices(Len(ms), removed_indices)
    IN  [j \in DOMAIN kept |-> ms[kept[j]]]

\* A variant that reports what is left by the running estimate of the loop: the
\* first measurement less the costs of the removed contents.
truncate_messages_RunningEstimate(ms, priorities, overhead, budget) ==
    LET pri == IF IsNone(priorities) THEN DefaultPriorities(ms) ELSE The(priorities)
        total_tokens == count_message_tokens(ms, 0) + overhead * Len(ms)
    IN  IF total_tokens <= budget
        THEN [messages |-> ms, remaining |-> budget - total_tokens, removed |-> {}]
        ELSE LET removed_indices ==
                     EvictLoop(ms, pri, SortedIndices(Len(ms), pri), 1, {},
                               total_tokens - budget)
                 result == Without(ms, removed_indices)
                 removed_cost ==
                     count_message_tokens(ms, 0) - count_message_tokens(result, 0)
             IN  [messages |-> result,
                  remaining |-> budget - (total_tokens - removed_cost),
                  removed |-> removed_indices]

\* token.py:43-121  truncate_messages: the collection and the remaining tokens
\* it returns, with the removed_indices it went by
truncate_messages(ms, priorities, overhead, budget) ==
    LET pri == IF IsNone(priorities) THEN DefaultPriorities(ms) ELSE The(priorities)
        total_tokens == count_message_tokens(ms, overhead)
    IN  IF total_tokens <= budget
        THEN [messages |-> ms, remaining |-> budget - total_tokens, removed |-> {}]
        ELSE LET removed_indices ==
                     EvictLoop(ms, pri, SortedIndices(Len(ms), pri), 1, {},
                               total_tokens - budget)
                 result == Without(ms, removed_indices)
             IN  [messages |-> result,
                  remaining |-> budget - count_message_tokens(result, overhead),
                  removed |-> removed_indices]

\* token.py:26-41  a manager constructed for some limits, and a call to make:
\* a collection with the default priorities, or one with a priority given for
\* every message or for none (the roles are read for the defaults only)
TokInit ==
    /\ \E mgr \in TkManagers :
          /\ max_tokens = mgr[1]
          /\ reserved_tokens = mgr[2]
          /\ max_context_tokens = MaxContextTokens(mgr[1], mgr[2])
    /\ \E n \in 0..MaxTkMsgs :
          \/ /\ tk_messages \in TkCollections(n, TkRoles)
             /\ tk_priorities = NoneV
          \/ /\ tk_messages \in TkCollections(n, {"user"})
             /\ tk_priorities \in {Some(f) : f \in [1..n -> TokenPriorities] \cup {<<>>}}
    /\ tk_overhead \in TkOverheads
    /\ tk_result = NoneV
    /\ tk_again = NoneV

\* token.py:28-29  a manager with the default limits that nobody uses
TokAtRest ==
    /\ max_tokens = 4096
    /\ reserved_tokens = 500
    /\ max_context_tokens = MaxContextTokens(4096, 500)
    /\ tk_messages = <<>>
    /\ tk_priorities = NoneV
    /\ tk_overhead = 0
    /\ tk_result = NoneV
    /\ tk_again = NoneV

\* token.py:43-121  the call
truncate_messages_call ==
    /\ IsNone(tk_result)
    /\ tk_result' = Some(truncate_messages(tk_messages, tk_priorities, tk_overhead,
                                           max_context_tokens))
    /\ UNCHANGED <<max_tokens, reserved_tokens, max_context_tokens, tk_messages,
                   tk_priorities, tk_overhead, tk_again>>

\* the priorities of the messages that were kept, keyed by their new positions
Rekeyed(priorities, removed_indices) ==
    IF IsNone(priorities) THEN NoneV
    ELSE LET pri == The(priorities)
             kept == KeptIndices(Len(tk_messages), removed_indices)
         IN  Some([j \in {i \in DOMAIN kept : kept[i] \in DOMAIN pri} |-> pri[kept[j]]])

\* token.py:43-121  a second call, on what the first returned
truncate_messages_again ==
    /\ ~ IsNone(tk_result)
    /\ IsNone(tk_again)
    /\ LET r == The(tk_result)
       IN  tk_again' = Some(truncate_messages(r.messages, Rekeyed(tk_priorities, r.removed),
                                              tk_overhead, max_context_tokens))
    /\ UNCHANGED <<max_tokens, reserved_tokens, max_context_tokens, tk_messages,
                   tk_priorities, tk_overhead, tk_result>>

\* ========================================================================
\*                            STATE PERSISTENCE
\* ========================================================================

\* messages in a state given to StatePersistence.save_state
MaxPsMsgs == 2
\* steps counted in a state given to StatePersistence.save_state
MaxPsSteps == 1

\* Python values a metadata dict may hold (Dict[str, Any]): a list, a tuple, a
\* set, each of the numbers v, and a dict of the one item v[1]: v[2] whose key
\* is the int v[1] ("dict_int_key") or the str that str(v[1]) is
\* ("dict_str_key": {"1": 2} for v = <<1, 2>>).
PyValue(t, v) == [t |-> t, v |-> v]
PyDicts == {"dict_int_key", "dict_str_key"}

\* json: what the encoder makes of a Python value, and the decoder of a JSON
\* one.  A list and a tuple are written as an array, and an array is read as a
\* list; a dict is written as an object, whose keys are strings: an int key k
\* is written as str(k), the text a str key of that text is written as; an
\* object is read as a dict with str keys; a set is not written at all.
JsonSerializable(pv) == pv.t # "set"
JsonEncode(pv) ==
    IF pv.t \in PyDicts THEN [j |-> "object", v |-> pv.v]
    ELSE [j |-> "array", v |-> pv.v]
JsonDecode(jv) ==
    IF jv.j = "object" THEN PyValue("dict_str_key", jv.v)
    ELSE PyValue("list", jv.v)
JsonEncodeDict(d) == {<<p[1], JsonEncode(p[2])>> : p \in d}
JsonDecodeDict(d) == {<<p[1], JsonDecode(p[2])>> : p \in d}

\* datetime.isoformat and datetime.fromisoformat
IsoFormat(t) == [iso |-> t]
FromIsoFormat(x) == x.iso

\* The states save_state is explored with: an AgentState as it is constructed
\* (state.py:42-49: no message, no step), with the status, the error and the
\* metadata its maker gave it; messages and steps come by its methods.
PsMessages ==
    {[role |-> rt[1], content |-> "hi", timestamp |-> rt[2], metadata |-> {}] :
        rt \in {<<RoleUser, 0>>, <<RoleAssistant, 1>>}}
PsMetadatas ==
    {{<<"k", PyValue("set", <<1, 2>>)>>},
     {<<"k", PyValue("list", <<1, 2>>)>>, <<"d", PyValue("dict_str_key", <<1, 2>>)>>},
     {<<"k", PyValue("tuple", <<1, 2>>)>>, <<"d", PyValue("dict_int_key", <<1, 2>>)>>}}
PsStates ==
    {[status |-> se[1], messages |-> <<>>, current_step |-> 0, max_steps |-> 10,
      metadata |-> md, error |-> se[2]] :
        se \in {<<"IDLE", NoneV>>, <<"ERROR", Some("boom")>>},
        md \in PsMetadatas}

\* state.py:25-32  Message.to_dict
Message_to_dict(m) ==
    [role |-> m.role, content |-> m.content, timestamp |-> IsoFormat(m.timestamp),
     metadata |-> m.metadata]

\* state.py:34-39  Message.from_dict
Message_from_dict(d) ==
    [role |-> d.role, content |-> d.content, timestamp |-> FromIsoFormat(d.timestamp),
     metadata |-> d.metadata]

\* A variant that leaves the error out.
AgentState_to_dict_NoError(s) ==
    [status |-> s.status,
     messages |-> [i \in DOMAIN s.messages |-> Message_to_dict(s.messages[i])],
     current_step |-> s.current_step, max_steps |-> s.max_steps,
     metadata |-> s.metadata, error |-> NoneV]

\* state.py:55-64  AgentState.to_dict
AgentState_to_dict(s) ==
    [status |-> s.status,
     messages |-> [i \in DOMAIN s.messages |-> Message_to_dict(s.messages[i])],
     current_step |-> s.current_step, max_steps |-> s.max_steps,
     metadata |-> s.metadata, error |-> s.error]

\* state.py:66-71  AgentState.from_dict: the declared fields of cls(**data)
AgentState_from_dict(d) ==
    [status |-> d.status,
     messages |-> [i \in DOMAIN d.messages |-> Message_from_dict(d.messages[i])],
     current_step |-> d.current_step, max_steps |-> d.max_steps,
     metadata |-> d.metadata, error |-> d.error]

\* persistence.py:54  json.dump can write all of state_dict
JsonDumpable(d) ==
    /\ \A p \in d.metadata : JsonSerializable(p[2])
    /\ \A i \in DOMAIN d.messages : \A p \in d.messages[i].metadata : JsonSerializable(p[2])

\* persistence.py:54  json.dump: the document written for state_dict
JsonDump(d) ==
    [k \in DOMAIN d |->
        CASE k = "metadata" -> JsonEncodeDict(d[k])
          [] k = "messages" ->
                [i \in DOMAIN d[k] |-> [d[k][i] EXCEPT !.metadata = JsonEncodeDict(@)]]
          [] OTHER -> d[k]]

\* persistence.py:90  json.load: the dict read from a document
JsonLoad(doc) ==
    [k \in DOMAIN doc |->
        CASE k = "metadata" -> JsonDecodeDict(doc[k])
          [] k = "messages" ->
                [i \in DOMAIN doc[k] |-> [doc[k][i] EXCEPT !.metadata = JsonDecodeDict(@)]]
          [] OTHER -> doc[k]]

\* persistence.py:48  state_dict["_saved_at"] = ...
WithSavedAt(d, t) == [k \in DOMAIN d \cup {"_saved_at"} |->
                         IF k = "_saved_at" THEN IsoFormat(t) ELSE d[k]]
\* persistence.py:93  state_dict.pop("_saved_at", None)
Pop(d, key) == [k \in DOMAIN d \ {key} |-> d[k]]

\* the state file: absent, a complete JSON document, or the beginning of one
NoFile == [kind |-> "absent", doc |-> NoneV]
PartialFile == [kind |-> "partial", doc |-> NoneV]
JsonFile(doc) == [kind |-> "json", doc |-> Some(doc)]

\* What the file system does to a call.
PsSaveOutcomes == {"ok", "open_fails", "write_fails"}
PsLoadOutcomes == {"ok", "read_fails"}
PsDeleteOutcomes == {"ok", "remove_fails"}

PsBool(b) == [kind |-> IF b THEN "True" ELSE "False", val |-> NoneV]
PsNone == [kind |-> "None", val |-> NoneV]
PsState(s) == [kind |-> "state", val |-> Some(s)]
PsRaise == [kind |-> "raise", val |-> NoneV]
PsNoCall == [kind |-> "nocall", val |-> NoneV]

\* persistence.py:45-48  save_state, up to the await of wait_for: the snapshot
\* of the state it was given
StatePersistence_state_dict(s) == WithSavedAt(AgentState_to_dict(s), now)

\* persistence.py:50-72  _save_to_file, run by wait_for: the file left and the
\* result of save_state.  open(.., 'w') fails and leaves the file alone, or
\* truncates it; json.dump then writes the document piece by piece, and a
\* failure on the way (the disk, or a value json cannot encode) leaves what was
\* written so far.  The write itself has no await in it: once its task runs,
\* wait_for cannot cut it short.
StatePersistence_save_to_file(f, state_dict, outcome) ==
    IF outcome = "open_fails" THEN [file |-> f, ret |-> PsBool(FALSE)]
    ELSE IF outcome = "write_fails" \/ ~ JsonDumpable(state_dict)
    THEN [file |-> PartialFile, ret |-> PsBool(FALSE)]
    ELSE [file |-> JsonFile(JsonDump(state_dict)), ret |-> PsBool(TRUE)]

\* persistence.py:78-100  load_state
StatePersistence_load_state(f, outcome) ==
    IF f.kind = "absent" THEN PsNone
    ELSE IF outcome = "read_fails" \/ f.kind # "json" THEN PsNone
    ELSE PsState(AgentState_from_dict(Pop(JsonLoad(The(f.doc)), "_saved_at")))

\* A variant that removes without looking first.
StatePersistence_delete_state_NoLook(f, outcome) ==
    IF f.kind = "absent" THEN [file |-> f, ret |-> PsRaise]
    ELSE IF outcome = "remove_fails" THEN [file |-> f, ret |-> PsBool(FALSE)]
    ELSE [file |-> NoFile, ret |-> PsBool(TRUE)]

\* persistence.py:102-117  delete_state
StatePersistence_delete_state(f, outcome) ==
    IF f.kind = "absent" THEN [file |-> f, ret |-> PsBool(TRUE)]
    ELSE IF outcome = "remove_fails" THEN [file |-> f, ret |-> PsBool(FALSE)]
    ELSE [file |-> NoFile, ret |-> PsBool(TRUE)]

\* persistence.py:20-33  a StatePersistence whose file does not exist yet
PersFresh ==
    /\ ps_file = NoFile
    /\ ps_saved = NoneV
    /\ ps_call = [name |-> "init", outcome |-> "ok", before |-> "absent",
                  prev |-> <<"init", "nocall">>]
    /\ ps_ret = PsNoCall
    /\ ps_saving = NoneV

\* no StatePersistence has been constructed
PersAtRest ==
    /\ ps_state = NoneV
    /\ ps_file = NoneV
    /\ ps_saved = NoneV
    /\ ps_call = NoneV
    /\ ps_ret = NoneV
    /\ ps_saving = NoneV

\* a caller holding some state, and a StatePersistence for it
PersInit == ps_state \in PsStates /\ PersFresh

PsCall(name, outcome) ==
    [name |-> name, outcome |-> outcome, before |-> ps_file.kind,
     prev |-> <<ps_call.name, ps_ret.kind>>]

\* persistence.py:35-64  a call of save_state, up to the await of
\* asyncio.wait_for: the snapshot of the caller's state is taken, the write is
\* left to wait_for.  Up to Python 3.11 wait_for runs it as a task of its own
\* and the caller is suspended, other tasks running meanwhile; from 3.12 on it
\* awaits the write in place, the same steps with nothing between them.
StatePersistence_save_state_call ==
    /\ IsNone(ps_saving)
    /\ ps_saving' = Some([state |-> ps_state,
                          state_dict |-> StatePersistence_state_dict(ps_state),
                          written |-> NoneV])
    /\ UNCHANGED <<ps_state, ps_file, ps_saved, ps_call, ps_ret>>

\* persistence.py:50-72  the event loop runs the write: outcome is what the file
\* system does this time
StatePersistence_save_to_file_runs(outcome) ==
    /\ ~ IsNone(ps_saving)
    /\ IsNone(The(ps_saving).written)
    /\ LET p == The(ps_saving)
           r == StatePersistence_save_to_file(ps_file, p.state_dict, outcome)
       IN  /\ ps_file' = r.file
           /\ ps_saving' = Some([p EXCEPT !.written =
                                    Some([call |-> PsCall("save_state", outcome),
                                          ret |-> r.ret])])
    /\ UNCHANGED <<ps_state, ps_saved, ps_call, ps_ret>>

\* persistence.py:64-76  the event loop resumes save_state, which returns
StatePersistence_save_state_returns ==
    /\ ~ IsNone(ps_saving)
    /\ ~ IsNone(The(ps_saving).written)
    /\ LET p == The(ps_saving)
           done == The(p.written)
       IN  /\ ps_call' = done.call
           /\ ps_ret' = done.ret
           /\ ps_saved' = IF done.ret = PsBool(TRUE) THEN Some(p.state) ELSE ps_saved
    /\ ps_saving' = NoneV
    /\ UNCHANGED <<ps_state, ps_file>>

\* persistence.py:78-100  a call of load_state
StatePersistence_load_state_call(outcome) ==
    /\ IsNone(ps_saving)
    /\ ps_call' = PsCall("load_state", outcome)
    /\ ps_ret' = StatePersistence_load_state(ps_file, outcome)
    /\ UNCHANGED <<ps_state, ps_file, ps_saved, ps_saving>>

\* persistence.py:102-117  a call of delete_state
StatePersistence_delete_state_call(outcome) ==
    LET r == StatePersistence_delete_state(ps_file, outcome)
    IN  /\ IsNone(ps_saving)
        /\ ps_call' = PsCall("delete_state", outcome)
        /\ ps_file' = r.file
        /\ ps_ret' = r.ret
        /\ ps_saved' = IF r.file.kind = "absent" THEN NoneV ELSE ps_saved
        /\ UNCHANGED <<ps_state, ps_saving>>

\* The state is changed by its methods, by the caller between its calls or by
\* another task while the caller is suspended in save_state; the dict that
\* save_state made at persistence.py:45 has its own list of messages
\* (state.py:58) and its own step count, and is not changed with it.

\* state.py:51-53  AgentState.add_message
AgentState_add_message(m) ==
    /\ Len(ps_state.messages) < MaxPsMsgs
    /\ ps_state' = [ps_state EXCEPT !.messages = Append(@, m)]
    /\ UNCHANGED <<ps_file, ps_saved, ps_call, ps_ret, ps_saving>>

\* state.py:73-76  AgentState.increment_step
AgentState_increment_step ==
    /\ ps_state.current_step < MaxPsSteps
    /\ ps_state' = [ps_state EXCEPT !.current_step = @ + 1]
    /\ UNCHANGED <<ps_file, ps_saved, ps_call, ps_ret, ps_saving>>

\* state.py:78-80  AgentState.reset_steps
AgentState_reset_steps ==
    /\ ps_state' = [ps_state EXCEPT !.current_step = 0]
    /\ UNCHANGED <<ps_file, ps_saved, ps_call, ps_ret, ps_saving>>

\* ========================================================================
\*                        SESSION MANAGER (AgentSession)
\* ========================================================================

\* the retention window of the expiry sweep (max_age_days, 7 days in the
\* source), in ticks of the clock
MaxAgeDays == 1

\* session ids a caller passes, and the ids uuid4 generates
SessionIdArgs == {NoneV, Some("default"), Some("s1")}
UuidPool == {"u1"}
AllSessionIds == {"default", "s1"} \cup UuidPool

\* A session metadata file: a complete document with its last_active (agent_type
\* and created_at are written once and never read back by the manager's tests),
\* or the beginning of one.
MetaRecord(t) == [kind |-> "json", last_active |-> t]
MetaPartial == [kind |-> "partial", last_active |-> 0]

\* What the file system does to a write of a metadata file; the places where a
\* removal can fail, at most one of them in a call.
MetaSaveOutcomes == {"ok", "open_fails", "write_fails"}
RemovalPoints == {<<id, f>> : id \in AllSessionIds, f \in {"meta", "state"}}
RemovalFailures == {{}} \cup {{p} : p \in RemovalPoints}
StateRemovalFailures == {{}} \cup {{<<id, "state">>} : id \in AllSessionIds}
RemovalFailuresOf(id) == {{}, {<<id, "meta">>}, {<<id, "state">>}}

\* the files of two directories: sessions_dir/<id>.json and data_dir/<id>_state.json
Disk(meta, files) == [meta |-> meta, files |-> files]
RemoveMeta(meta, id) == [k \in DOMAIN meta \ {id} |-> meta[k]]
PutMeta(meta, id, rec) == [k \in DOMAIN meta \cup {id} |-> IF k = id THEN rec ELSE meta[k]]

\* session.py:48-70  _cleanup_default_session: each removal inside its own try
cleanup_default_session(d, fail) ==
    LET meta1 == IF "default" \in DOMAIN d.meta /\ <<"default", "meta">> \notin fail
                 THEN RemoveMeta(d.meta, "default") ELSE d.meta
        files1 == IF "default" \in d.files /\ <<"default", "state">> \notin fail
                  THEN d.files \ {"default"} ELSE d.files
    IN  Disk(meta1, files1)

\* A variant whose window includes its end.
Expired_Inclusive(rec, t) == rec.kind = "json" /\ rec.last_active <= t - MaxAgeDays

\* session.py:85-98  the record is read and its last_active is before the cutoff
Expired(rec, t) == rec.kind = "json" /\ rec.last_active < t - MaxAgeDays

\* session.py:90-113  one metadata file of the sweep, inside its try/except: the
\* state file is removed first, then the metadata file; a removal that raises
\* ends the work on this file
SweepRecord(d, id, t, fail) ==
    IF ~ Expired(d.meta[id], t) THEN d
    ELSE IF id \in d.files /\ <<id, "state">> \in fail THEN d
    ELSE IF <<id, "meta">> \in fail THEN Disk(d.meta, d.files \ {id})
    ELSE Disk(RemoveMeta(d.meta, id), d.files \ {id})

\* session.py:72-117  _cleanup_expired_sessions: every metadata file in turn
RECURSIVE SweepEach(_, _, _, _)
SweepEach(d, ids, t, fail) ==
    IF ids = {} THEN d
    ELSE LET id == CHOOSE x \in ids : TRUE
         IN  SweepEach(SweepRecord(d, id, t, fail), ids \ {id}, t, fail)

cleanup_expired_sessions(d, t, fail) == SweepEach(d, DOMAIN d.meta, t, fail)

\* session.py:28-46  __init__: the directories as the two sweeps leave them
AgentSession_init(d, t, fail) ==
    cleanup_expired_sessions(cleanup_default_session(d, fail), t, fail)

\* session.py:54-109  the calls of os.remove that __init__ makes on d: those of
\* the default clean-up, then for each expired record the state file if there
\* is one and, unless that raised, the metadata file
RemovalsTried(d, t, fail) ==
    LET d1 == cleanup_default_session(d, fail)
        expired == {id \in DOMAIN d1.meta : Expired(d1.meta[id], t)}
    IN  {<<"default", "meta">> : x \in {"default"} \cap DOMAIN d.meta}
          \cup {<<"default", "state">> : x \in {"default"} \cap d.files}
          \cup {<<id, "state">> : id \in expired \cap d1.files}
          \cup {<<id, "meta">> : id \in {x \in expired :
                     ~ (x \in d1.files /\ <<x, "state">> \in fail)}}

\* session.py:299-316  _save_session_metadata
save_session_metadata(meta, id, rec, outcome) ==
    CASE outcome = "ok"          -> PutMeta(meta, id, rec)
      [] outcome = "open_fails"  -> meta
      [] outcome = "write_fails" -> PutMeta(meta, id, MetaPartial)

\* session.py:318-336  _load_session_metadata: the record, or None
load_session_metadata(meta, id) ==
    IF id \in DOMAIN meta /\ meta[id].kind = "json" THEN Some(meta[id]) ELSE NoneV

\* A variant that leaves the record as it is.
update_session_last_active_Keep(meta, id, t, outcome) == meta

\* session.py:338-352  _update_session_last_active
update_session_last_active(meta, id, t, outcome) ==
    LET metadata == load_session_metadata(meta, id)
    IN  IF IsNone(metadata) THEN meta
        ELSE save_session_metadata(meta, id, [The(metadata) EXCEPT !.last_active = t], outcome)

\* A variant that takes the id as it is given.
SessionIdFor_AsGiven(arg, uuid) == IF IsNone(arg) THEN uuid ELSE The(arg)

\* session.py:166-171  the id create_session goes by
SessionIdFor(arg, uuid) ==
    IF IsNone(arg) \/ arg = Some("default") THEN uuid ELSE The(arg)

\* uuid.uuid4(): an id that names nothing, in memory or on disk
UnusedUuids ==
    {u \in UuidPool :
        /\ u \notin DOMAIN active_sessions
        /\ u \notin DOMAIN ss_meta
        /\ u \notin ss_state_files
        /\ \A t \in DOMAIN ss_task : ss_task[t].id # u}
uuid4 == CHOOSE u \in UnusedUuids : TRUE

\* A Runtime is told from the other live ones by a number: the object
\* create_agent returns is none of those the cache holds.
NewRuntime ==
    CHOOSE n \in 1..(Cardinality(DOMAIN active_sessions) + 1) :
        \A id \in DOMAIN active_sessions : active_sessions[id] # n

SsAgent(a) == [kind |-> "agent", agent |-> a]
SsNone == [kind |-> "None", agent |-> 0]
SsBool(b) == [kind |-> IF b THEN "True" ELSE "False", agent |-> 0]
SsRaise == [kind |-> "raise", agent |-> 0]
SsIdle == [pc |-> "idle", op |-> "", arg |-> NoneV, id |-> ""]

\* the tasks of the callers of an AgentSession, and the task that shuts the
\* application down (main.py:63)
Callers == {1, 2}
ShutdownTask == 0

\* what a call left behind: its name, the id it was given and the id it went
\* by, its result, and the file operations it attempted and those that failed
SsLast(op, arg, id, result, attempted, failed) ==
    [op |-> op, arg |-> arg, id |-> id, ret |-> result, attempted |-> attempted,
     failed |-> failed]

\* a dict keeps its keys in the order of their insertion: a key stored again
\* keeps its place (session.py:187, 237), a key deleted leaves it (255)
KeyStored(order, cache, id) == IF id \in DOMAIN cache THEN order ELSE Append(order, id)
KeyDeleted(order, id) ==
    IF \E i \in DOMAIN order : order[i] = id
    THEN LET i == CHOOSE k \in DOMAIN order : order[k] = id
         IN  SubSeq(order, 1, i - 1) \o SubSeq(order, i + 1, Len(order))
    ELSE order

\* session.py:148-176  create_session up to the construction of the agent;
\* uuid4 is called for no id and for "default" only
create_session_begin(t, arg) ==
    LET session_id == SessionIdFor(arg, uuid4)
    IN  /\ ss_task[t].pc = "idle"
        /\ (IsNone(arg) \/ arg = Some("default")) => UnusedUuids # {}
        /\ IF session_id \in DOMAIN active_sessions
           THEN /\ ss_last' = SsLast("create_session", arg, session_id,
                                     SsAgent(active_sessions[session_id]), {}, {})
                /\ UNCHANGED ss_task
           ELSE /\ ss_task' = [ss_task EXCEPT ![t] =
                       [pc |-> "create_agent", op |-> "create_session", arg |-> arg,
                        id |-> session_id]]
                /\ UNCHANGED ss_last
        /\ UNCHANGED <<active_sessions, ss_order, ss_meta, ss_state_files, ss_runtimes>>

\* factory.py:44-83  how create_agent ends: it returns the initialised agent, or
\* raises (factory.py:74 an agent type that is not registered; default.py:57-70
\* DefaultAgent.initialize when the LLM cannot be created)
CreateAgentOutcomes == {"returns", "raises"}

\* session.py:179-197  create_session from the end of create_agent: the
\* exception of create_agent is not caught
create_session_end(t, made, outcome) ==
    LET session_id == ss_task[t].id
        agent == NewRuntime
    IN  /\ ss_task[t].pc = "create_agent"
        /\ ss_task[t].op = "create_session"
        /\ IF made = "raises"
           THEN /\ ss_last' = SsLast("create_session", ss_task[t].arg, session_id, SsRaise,
                                     {}, {})
                /\ UNCHANGED <<active_sessions, ss_order, ss_meta, ss_runtimes>>
           ELSE /\ active_sessions' = PutMeta(active_sessions, session_id, agent)
                /\ ss_order' = KeyStored(ss_order, active_sessions, session_id)
                /\ ss_runtimes' = ss_runtimes \cup {session_id}
                /\ ss_meta' = save_session_metadata(ss_meta, session_id, MetaRecord(now),
                                                    outcome)
                /\ ss_last' = SsLast("create_session", ss_task[t].arg, session_id,
                                     SsAgent(agent), {"metadata"},
                                     IF outcome = "ok" THEN {} ELSE {"metadata"})
        /\ ss_task' = [ss_task EXCEPT ![t] = SsIdle]
        /\ UNCHANGED ss_state_files

\* session.py:199-231  get_session up to the construction of the agent
get_session_begin(t, session_id) ==
    /\ ss_task[t].pc = "idle"
    /\ IF session_id = "default"
       THEN /\ ss_last' = SsLast("get_session", Some(session_id), session_id, SsNone, {}, {})
            /\ UNCHANGED ss_task
       ELSE IF session_id \in DOMAIN active_sessions
       THEN /\ ss_last' = SsLast("get_session", Some(session_id), session_id,
                                 SsAgent(active_sessions[session_id]), {}, {})
            /\ UNCHANGED ss_task
       ELSE IF IsNone(load_session_metadata(ss_meta, session_id))
       THEN /\ ss_last' = SsLast("get_session", Some(session_id), session_id, SsNone, {}, {})
            /\ UNCHANGED ss_task
       ELSE /\ ss_task' = [ss_task EXCEPT ![t] =
                   [pc |-> "create_agent", op |-> "get_session", arg |-> Some(session_id),
                    id |-> session_id]]
            /\ UNCHANGED ss_last
    /\ UNCHANGED <<active_sessions, ss_order, ss_meta, ss_state_files, ss_runtimes>>

\* session.py:228-240  get_session from the end of create_agent: the exception
\* of create_agent is not caught; _update_session_last_active writes the
\* metadata file only when it can read the record (347-349), which may be gone
\* by now
get_session_end(t, made, outcome) ==
    LET session_id == ss_task[t].id
        agent == NewRuntime
        written == ~ IsNone(load_session_metadata(ss_meta, session_id))
    IN  /\ ss_task[t].pc = "create_agent"
        /\ ss_task[t].op = "get_session"
        /\ IF made = "raises"
           THEN /\ ss_last' = SsLast("get_session", ss_task[t].arg, session_id, SsRaise,
                                     {}, {})
                /\ UNCHANGED <<active_sessions, ss_order, ss_meta, ss_runtimes>>
           ELSE /\ ss_runtimes' = ss_runtimes \cup {session_id}
                /\ ss_meta' = update_session_last_active(ss_meta, session_id, now, outcome)
                /\ active_sessions' = PutMeta(active_sessions, session_id, agent)
                /\ ss_order' = KeyStored(ss_order, active_sessions, session_id)
                /\ ss_last' = SsLast("get_session", ss_task[t].arg, session_id,
                                     SsAgent(agent),
                                     IF written THEN {"metadata"} ELSE {},
                                     IF written /\ outcome # "ok" THEN {"metadata"} ELSE {})
        /\ ss_task' = [ss_task EXCEPT ![t] = SsIdle]
        /\ UNCHANGED ss_state_files

\* How the cleanup() of a Runtime ends when the session manager awaits it: its
\* save has written the state file (base.py:268) or has failed, or the
\* cleanup of a subclass raises.
CleanupOutcomes == {"saved", "save_fails", "raises"}

\* base.py:264-273  the saves a cleanup() makes: the auto-save of the change to
\* STOPPING, save_state(), and the auto-save of the change to STOPPED when the
\* throttle lets it through
CleanupSaves == 3

\* the cleanup() that ends this way can have written the state file this many
\* times: the one whose save_state() succeeded has written it
CleanupCanEnd(cleanup, writes) == cleanup = "saved" => writes >= 1

\* a cleanup() that has written the file of id this many times writes it once
\* more.  A write that finds the file there leaves the directory as it is: it
\* is told from no write only when it is the first, which is the one that the
\* end of the cleanup goes by.
CleanupWrites(id, writes) ==
    /\ writes < CleanupSaves
    /\ writes = 0 \/ id \notin ss_state_files

\* session.py:256-278  delete_session, from the removal of the metadata file
\* on; cleaned tells whether the session was live and its Runtime cleaned up
delete_session_files(session_id, cleaned, fail) ==
    LET has_meta == session_id \in DOMAIN ss_meta
        has_state == session_id \in ss_state_files
        meta_fails == <<session_id, "meta">> \in fail
        state_fails == <<session_id, "state">> \in fail
        arg == Some(session_id)
    IN  IF has_meta
        THEN /\ ss_meta' = IF meta_fails THEN ss_meta ELSE RemoveMeta(ss_meta, session_id)
             /\ UNCHANGED ss_state_files
             /\ ss_last' = SsLast("delete_session", arg, session_id,
                    SsBool(~ meta_fails),
                    (IF cleaned THEN {"cleanup"} ELSE {}) \cup {"meta"},
                    IF meta_fails THEN {"meta"} ELSE {})
        ELSE /\ UNCHANGED ss_meta
             /\ ss_state_files' = IF has_state /\ ~ state_fails
                                  THEN ss_state_files \ {session_id} ELSE ss_state_files
             /\ ss_last' = SsLast("delete_session", arg, session_id, SsBool(TRUE),
                    (IF cleaned THEN {"cleanup"} ELSE {})
                       \cup (IF has_state THEN {"state"} ELSE {}),
                    IF has_state /\ state_fails THEN {"state"} ELSE {})

\* session.py:242-254  delete_session up to the await of agent.cleanup().  A
\* session that is not live has no await on the way: its files are removed and
\* the call returns.  The cleanup of a live Runtime saves (base.py:258-274),
\* and up to Python 3.11 each save suspends the task (persistence.py:64), other
\* tasks running meanwhile; from 3.12 on the steps follow each other.
delete_session_begin(t, session_id, fail) ==
    /\ ss_task[t].pc = "idle"
    /\ IF session_id \in DOMAIN active_sessions
       THEN /\ ss_task' = [ss_task EXCEPT ![t] =
                   [pc |-> "cleanup", op |-> "delete_session", arg |-> Some(session_id),
                    id |-> session_id, writes |-> 0]]
            /\ UNCHANGED <<active_sessions, ss_order, ss_meta, ss_state_files, ss_last>>
       ELSE /\ delete_session_files(session_id, FALSE, fail)
            /\ UNCHANGED <<active_sessions, ss_order, ss_task>>
    /\ UNCHANGED ss_runtimes

\* session.py:254 with base.py:264-273 and persistence.py:51-64  a save of the
\* cleanup that delete_session awaits writes the state file: the event loop
\* runs the write on its own, with delete_session suspended before and after
\* it
delete_session_cleanup_saves(t) ==
    /\ ss_task[t].pc = "cleanup"
    /\ ss_task[t].op = "delete_session"
    /\ CleanupWrites(ss_task[t].id, ss_task[t].writes)
    /\ ss_state_files' = ss_state_files \cup {ss_task[t].id}
    /\ ss_task' = [ss_task EXCEPT ![t].writes = @ + 1]
    /\ UNCHANGED <<active_sessions, ss_order, ss_meta, ss_runtimes, ss_last>>

\* session.py:254-278 with base.py:268-274  delete_session from the last
\* resumption of agent.cleanup() on, with no await on the way: the cleanup
\* ends, its save_state() having written the file or failed, or raises; an
\* exception of the cleanup is not caught; del raises KeyError when the id has
\* left the cache meanwhile; then the files are removed
delete_session_end(t, cleanup, fail) ==
    LET session_id == ss_task[t].id
    IN  /\ ss_task[t].pc = "cleanup"
        /\ ss_task[t].op = "delete_session"
        /\ CleanupCanEnd(cleanup, ss_task[t].writes)
        /\ IF cleanup = "raises"
           THEN /\ ss_last' = SsLast("delete_session", ss_task[t].arg, session_id, SsRaise,
                                     {"cleanup"}, {"cleanup"})
                /\ UNCHANGED <<active_sessions, ss_order, ss_meta, ss_state_files>>
           ELSE IF session_id \notin DOMAIN active_sessions
           THEN /\ ss_last' = SsLast("delete_session", ss_task[t].arg, session_id, SsRaise,
                                     {"cleanup"}, {})
                /\ UNCHANGED <<active_sessions, ss_order, ss_meta, ss_state_files>>
           ELSE /\ active_sessions' = RemoveMeta(active_sessions, session_id)
                /\ ss_order' = KeyDeleted(ss_order, session_id)
                /\ delete_session_files(session_id, TRUE, fail)
        /\ ss_task' = [ss_task EXCEPT ![t] = SsIdle]
        /\ UNCHANGED ss_runtimes

\* base.py:101-122 with persistence.py:51-64  the write of a save of a Runtime
\* (the auto-save of a turn, a save_state() of its user): the Runtime may have
\* left the cache since its user got it or since the save began, and its save
\* writes the file all the same
runtime_saves(session_id) ==
    /\ session_id \in ss_runtimes
    /\ session_id \notin ss_state_files
    /\ ss_state_files' = ss_state_files \cup {session_id}
    /\ UNCHANGED <<active_sessions, ss_order, ss_meta, ss_runtimes, ss_task, ss_last>>

\* session.py:129-139  the state files the sweep removes: those whose id has no
\* metadata file, the id "default" apart
Orphans(d) == {id \in d.files : id \notin DOMAIN d.meta /\ id # "default"}

\* session.py:119-146  _cleanup_orphaned_state_files: the state files it can
\* leave.  The removals are inside one try: the first that raises ends the
\* sweep, after the orphans the directory listing gave before it, whichever
\* they were, have been removed.
cleanup_orphaned_state_files(d, fail) ==
    LET failing == {id \in Orphans(d) : <<id, "state">> \in fail}
    IN  IF failing = {}
        THEN {d.files \ Orphans(d)}
        ELSE {d.files \ visited : visited \in SUBSET (Orphans(d) \ failing)}

\* A variant in which the first cleanup that raises ends the loop.
CleanupEach_StopAtRaise(live, outcomes) ==
    IF \E id \in DOMAIN outcomes : outcomes[id] = "raises" THEN NoneV
    ELSE IF Cardinality(DOMAIN outcomes) < Len(live)
    THEN Some(live[Cardinality(DOMAIN outcomes) + 1]) ELSE NoneV

\* session.py:356-360  the loop over the Runtimes that were live when cleanup
\* started, in the order of the cache, each agent.cleanup() inside its own
\* try/except: the Runtime the loop comes to next, if any, when outcomes is how
\* the cleanups made so far have ended
CleanupEach(live, outcomes) ==
    IF Cardinality(DOMAIN outcomes) < Len(live)
    THEN Some(live[Cardinality(DOMAIN outcomes) + 1]) ELSE NoneV

\* session.py:360-366  cleanup, from the end of the loop on: outcomes is how
\* the cleanup of each Runtime of the loop has ended; the cache is cleared, then
\* the orphan sweep runs.  The removals the sweep has attempted are those it
\* has made and the one that raised.
AgentSession_cleanup_sweep(outcomes, fail) ==
    LET d1 == Disk(ss_meta, ss_state_files)
        raised == {id \in Orphans(d1) : <<id, "state">> \in fail}
    IN  /\ active_sessions' = <<>>
        /\ ss_order' = <<>>
        /\ ss_state_files' \in cleanup_orphaned_state_files(d1, fail)
        /\ ss_last' = SsLast("cleanup", NoneV, "", SsNone,
               {<<id, "cleanup">> : id \in DOMAIN outcomes}
                  \cup {<<id, "state">> : id \in (ss_state_files \ ss_state_files') \cup raised},
               {<<id, outcomes[id]>> : id \in {x \in DOMAIN outcomes : outcomes[x] # "saved"}}
                  \cup {<<id, "state">> : id \in raised})
        /\ UNCHANGED <<ss_meta, ss_runtimes>>

\* the task t is in the loop of cleanup
InCleanupLoop(t) == ss_task[t].pc = "cleanup" /\ ss_task[t].op = "cleanup"

\* session.py:354-358  cleanup up to the first await of agent.cleanup(): the
\* loop goes over the Runtimes live now (list(self.active_sessions.items())).
\* With none live there is no await on the way and the call runs to its end.
AgentSession_cleanup_begin(t, fail) ==
    /\ ss_task[t].pc = "idle"
    /\ IF ss_order = <<>>
       THEN /\ AgentSession_cleanup_sweep(<<>>, fail)
            /\ UNCHANGED ss_task
       ELSE /\ ss_task' = [ss_task EXCEPT ![t] =
                   [pc |-> "cleanup", op |-> "cleanup", arg |-> NoneV, id |-> "",
                    live |-> ss_order, outcomes |-> <<>>, writes |-> 0]]
            /\ UNCHANGED <<active_sessions, ss_order, ss_meta, ss_state_files, ss_runtimes,
                           ss_last>>

\* session.py:358 with base.py:264-273 and persistence.py:51-64  a save of the
\* cleanup of the Runtime the loop has come to writes the state file: the
\* event loop runs the write on its own, with cleanup suspended before and
\* after it
AgentSession_cleanup_agent_saves(t) ==
    /\ InCleanupLoop(t)
    /\ ~ IsNone(CleanupEach(ss_task[t].live, ss_task[t].outcomes))
    /\ CleanupWrites(The(CleanupEach(ss_task[t].live, ss_task[t].outcomes)), ss_task[t].writes)
    /\ ss_state_files' = ss_state_files
                            \cup {The(CleanupEach(ss_task[t].live, ss_task[t].outcomes))}
    /\ ss_task' = [ss_task EXCEPT ![t].writes = @ + 1]
    /\ UNCHANGED <<active_sessions, ss_order, ss_meta, ss_runtimes, ss_last>>

\* session.py:356-366 with base.py:268-274  cleanup from the last resumption
\* of the agent.cleanup() the loop is in, with no await on the way to the
\* next: that cleanup ends, whether it raises or not, and the loop goes on to
\* the cleanup of the next Runtime, up to its first await; after the last one
\* the cache is cleared, the orphan sweep runs and the call returns
AgentSession_cleanup_agent(t, cleanup, fail) ==
    /\ InCleanupLoop(t)
    /\ ~ IsNone(CleanupEach(ss_task[t].live, ss_task[t].outcomes))
    /\ CleanupCanEnd(cleanup, ss_task[t].writes)
    /\ LET session_id == The(CleanupEach(ss_task[t].live, ss_task[t].outcomes))
           outcomes == PutMeta(ss_task[t].outcomes, session_id, cleanup)
       IN  IF IsNone(CleanupEach(ss_task[t].live, outcomes))
           THEN /\ AgentSession_cleanup_sweep(outcomes, fail)
                /\ ss_task' = [ss_task EXCEPT ![t] = SsIdle]
           ELSE /\ ss_task' = [ss_task EXCEPT ![t].outcomes = outcomes, ![t].writes = 0]
                /\ UNCHANGED <<active_sessions, ss_order, ss_meta, ss_state_files,
                               ss_runtimes, ss_last>>

\* the failures that a construction on d at time t can meet: those of a
\* removal it attempts
FailuresMet(d, t) == {f \in RemovalFailures : f \subseteq RemovalsTried(d, t, f)}

\* session.py:28-46  the process starts again: a new AgentSession on the same
\* directories, its cache empty
restart(fail) ==
    LET d == AgentSession_init(Disk(ss_meta, ss_state_files), now, fail)
    IN  /\ \A u \in DOMAIN ss_task : ss_task[u].pc = "idle"
        /\ active_sessions' = <<>>
        /\ ss_order' = <<>>
        /\ ss_runtimes' = {}
        /\ ss_meta' = d.meta
        /\ ss_state_files' = d.files
        /\ ss_last' = SsLast("init", NoneV, "", SsNone,
                              RemovalsTried(Disk(ss_meta, ss_state_files), now, fail),
                              fail \cap RemovalsTried(Disk(ss_meta, ss_state_files), now, fail))
        /\ UNCHANGED ss_task

\* session.py:28-46  an AgentSession constructed on directories that are empty
\* or hold the files of the retired "default" session, the removals that raise
\* being one of failures
SessInitOn(failures) ==
    /\ \E legacy \in BOOLEAN, fail \in failures :
          LET d0 == IF legacy THEN Disk([k \in {"default"} |-> MetaRecord(0)], {"default"})
                    ELSE Disk(<<>>, {})
              d == AgentSession_init(d0, now, fail)
          IN  /\ ss_meta = d.meta
              /\ ss_state_files = d.files
              /\ ss_last = SsLast("init", NoneV, "", SsNone,
                                  RemovalsTried(d0, now, fail),
                                  fail \cap RemovalsTried(d0, now, fail))
    /\ active_sessions = <<>>
    /\ ss_order = <<>>
    /\ ss_runtimes = {}
    /\ ss_task = [t \in {ShutdownTask} \cup Callers |-> SsIdle]

\* constructed on a file system that does not fail, and on one that may fail
\* any removal
SessInit == SessInitOn({{}})
SessInitFailing == SessInitOn(RemovalFailures)

\* no AgentSession has been constructed
SessAtRest ==
    /\ ss_meta = NoneV
    /\ ss_state_files = NoneV
    /\ ss_last = NoneV
    /\ active_sessions = NoneV
    /\ ss_order = NoneV
    /\ ss_runtimes = NoneV
    /\ ss_task = NoneV

\* no request is being retried and no history is being truncated
LlmAtRest ==
    /\ handle_retry = NoneV
    /\ history_call = NoneV

\* nothing noted down yet
NotesInit ==
    /\ last_write = NoneV
    /\ auto_writes = <<>>
    /\ changes = <<>>

\* A runtime nobody calls, beside the state machine under test.
AgentAtRest == AgentInit /\ NotesInit /\ TokAtRest /\ PersAtRest /\ SessAtRest /\ LlmAtRest

\* The state machine driven by arbitrary calls.
InitSM == SMInit /\ AgentAtRest
SMNext ==
    \/ \E s \in ExtraStates : add_valid_state(s) /\ UNCHANGED <<agvars, wrvars, tkvars, psvars, ssvars, llvars>>
    \/ \E f \in AllowFromArgs, t \in AllowToArgs : allow_transition(f, t) /\ UNCHANGED <<agvars, wrvars, tkvars, psvars, ssvars, llvars>>
    \/ \E r \in BOOLEAN, f \in CallbackFromArgs, t \in CallbackToArgs :
          add_transition_callback(r, f, t) /\ UNCHANGED <<agvars, wrvars, tkvars, psvars, ssvars, llvars>>
    \/ \E t \in StateNames : can_transition_call(t) /\ UNCHANGED <<agvars, wrvars, tkvars, psvars, ssvars, llvars>>
    \/ \E t \in StateNames, d \in DataArgs : transition(t, d) /\ UNCHANGED <<agvars, wrvars, tkvars, psvars, ssvars, llvars>>
SpecSM == InitSM /\ [][SMNext]_vars

\* One runtime and its caller; the state machine is not part of BaseAgent.
Init == SMInit /\ AgentInit /\ NotesInit /\ TokAtRest /\ PersAtRest /\ SessAtRest /\ LlmAtRest
Next == AgentNext
Spec == Init /\ [][Next]_vars

\* run() beside the calls that set the status it starts from and the task that
\* changes the status while it sleeps.  run() reads and writes status and its
\* counter only; the other calls notify the callbacks, and once initialize()
\* has registered the auto-save their saves suspend the caller.
RunNext ==
    \/ Tick /\ UNCHANGED <<smvars, wrvars, tkvars, psvars, ssvars, llvars>>
    \/ (system_prompt # "" => grown < MaxMsgs) /\ initialize /\ UNCHANGED <<smvars, wrvars, tkvars, psvars, ssvars, llvars>>
    \/ \E u \in UserInputs : process_begin(u) /\ UNCHANGED <<smvars, wrvars, tkvars, psvars, ssvars, llvars>>
    \/ \E r \in ThinkOutcomes : process_end(r) /\ UNCHANGED <<smvars, wrvars, tkvars, psvars, ssvars, llvars>>
    \/ \E st \in SetStateArgs, e \in SetStateErrors : set_state_call(st, e) /\ UNCHANGED <<smvars, wrvars, tkvars, psvars, ssvars, llvars>>
    \/ run_begin /\ UNCHANGED <<smvars, wrvars, tkvars, psvars, ssvars, llvars>>
    \/ run_loop /\ UNCHANGED <<smvars, wrvars, tkvars, psvars, ssvars, llvars>>
    \/ run_wake /\ UNCHANGED <<smvars, wrvars, tkvars, psvars, ssvars, llvars>>
    \/ run_cancelled /\ UNCHANGED <<smvars, wrvars, tkvars, psvars, ssvars, llvars>>
    \/ \E o \in SaveOutcomes : save_write(o) /\ UNCHANGED <<smvars, wrvars, tkvars, psvars, ssvars, llvars>>
    \/ save_resume /\ UNCHANGED <<smvars, wrvars, tkvars, psvars, ssvars, llvars>>

\* The outcomes the runtime with observers is explored with: a save that writes
\* the file and one that fails; think() returning text and think() raising.
ObsSaveOutcomes == {"ok", "write_fails"}
ObsThinkOutcomes == {r \in ThinkOutcomes : r.kind = "raise" \/ r.text}

\* the caller is still setting the runtime up: no turn and no cleanup() yet
SettingUp ==
    call.name \in {"init", "initialize", "add_state_change_callback", "add_message_callback"}

\* A runtime with registered observers: the caller registers callbacks and calls
\* initialize() in any order, then come turns and cleanup(), all within one tick
\* of the clock.
ObsNext ==
    \/ \E cb \in ObserverKinds :
          SettingUp /\ add_state_change_callback(cb) /\ UNCHANGED <<smvars, wrvars, tkvars, psvars, ssvars, llvars>>
    \/ \E cb \in ObserverKinds :
          SettingUp /\ add_message_callback(cb) /\ UNCHANGED <<smvars, wrvars, tkvars, psvars, ssvars, llvars>>
    \/ initialize /\ UNCHANGED <<smvars, wrvars, tkvars, psvars, ssvars, llvars>>
    \/ \E u \in UserInputs : process_begin(u) /\ UNCHANGED <<smvars, wrvars, tkvars, psvars, ssvars, llvars>>
    \/ \E r \in ObsThinkOutcomes : process_end(r) /\ UNCHANGED <<smvars, wrvars, tkvars, psvars, ssvars, llvars>>
    \/ cleanup_begin /\ UNCHANGED <<smvars, wrvars, tkvars, psvars, ssvars, llvars>>
    \/ cleanup_save /\ UNCHANGED <<smvars, wrvars, tkvars, psvars, ssvars, llvars>>
    \/ cleanup_end /\ UNCHANGED <<smvars, wrvars, tkvars, psvars, ssvars, llvars>>
    \/ notify_state_change_call /\ UNCHANGED <<smvars, wrvars, tkvars, psvars, ssvars, llvars>>
    \/ \E o \in ObsSaveOutcomes : save_write(o) /\ UNCHANGED <<smvars, wrvars, tkvars, psvars, ssvars, llvars>>
    \/ save_resume /\ UNCHANGED <<smvars, wrvars, tkvars, psvars, ssvars, llvars>>
SpecObs == Init /\ [][ObsNext]_vars

IsSaveAttempt(e) == e.ev \in {"save_direct", "save_auto"}
IsAutoSaveEvent(e) == e.ev \in {"autosave_skip", "save_auto"}

\* what the step added to the log: a call starts with an empty log
NewEvents == IF pc = "idle" THEN oplog' ELSE SubSeq(oplog', Len(oplog) + 1, Len(oplog'))

IsWrite(e) == IsSaveAttempt(e) /\ e.arg = "True"
IsAutoWrite(e) == e = Event("save_auto", "True")
\* base.py:294-317  the state-change callbacks are run by _change_state and by
\* notify_state_change()
IsNotification(e) == e.ev \in {"status", "notify"}
Has(evs, Test(_)) == SelectSeq(evs, Test) # <<>>

\* the auto-save callback is in the list the notification goes through
AutoSaveWired == \E i \in DOMAIN on_state_change : on_state_change[i] = "auto_save"

\* the note of a notification made at time t: auto is what became of its
\* auto-save ("skipped", "begun", then "written" or "failed"), later the time
\* read by the last explicit save after it that wrote the file (optional), and
\* clean says that no save has failed since
Change(t, auto) == [at |-> t, auto |-> auto, later |-> NoneV, clean |-> TRUE]
LastTwo(s) == IF Len(s) > 2 THEN SubSeq(s, Len(s) - 1, Len(s)) ELSE s
IsAutoAttempt(e) == e.ev = "save_auto"
IsAutoSkip(e) == e.ev = "autosave_skip"

\* the observer notes what the step did.  A write is noted with the time its
\* save read before it (base.py:112), which for the auto-save is the time of
\* the notification that caused it, and with the time of the write itself; the
\* saves made while the caller of a notification goes on are noted with it.
Note ==
    /\ last_write' = IF Has(NewEvents, IsWrite)
                     THEN Some(The(saving).now) ELSE last_write
    /\ auto_writes' = auto_writes \o
                         (IF Has(NewEvents, IsAutoWrite)
                          THEN <<[read |-> The(saving).now, at |-> now]>> ELSE <<>>)
    /\ changes' =
          IF Has(NewEvents, IsNotification) /\ AutoSaveWired
          THEN LastTwo(Append(changes,
                   Change(now, IF Has(NewEvents, IsAutoSkip) THEN "skipped" ELSE "begun")))
          ELSE IF changes = <<>> \/ ~ Has(NewEvents, IsSaveAttempt) THEN changes
          ELSE LET wrote == Has(NewEvents, IsWrite)
                   c == changes[Len(changes)]
               IN  [changes EXCEPT ![Len(changes)] =
                       IF Has(NewEvents, IsAutoAttempt)
                       THEN [c EXCEPT !.auto = IF wrote THEN "written" ELSE "failed",
                                      !.clean = @ /\ wrote]
                       ELSE [c EXCEPT !.later = IF wrote THEN Some(The(saving).now) ELSE @,
                                      !.clean = @ /\ wrote]]

\* A runtime through time, with the observer taking notes: initialize() or a
\* save_state() wires the auto-save, then come turns (think() returning text or
\* raising), explicit saves, notifications and cleanup(), in any order.
SaveNext ==
    \/ Tick /\ UNCHANGED <<smvars, wrvars, tkvars, psvars, ssvars, llvars>>
    \/ ~ persistence /\ initialize /\ Note /\ UNCHANGED <<smvars, tkvars, psvars, ssvars, llvars>>
    \/ \E u \in UserInputs : process_begin(u) /\ Note /\ UNCHANGED <<smvars, tkvars, psvars, ssvars, llvars>>
    \/ \E r \in ObsThinkOutcomes : process_end(r) /\ Note /\ UNCHANGED <<smvars, tkvars, psvars, ssvars, llvars>>
    \/ cleanup_begin /\ Note /\ UNCHANGED <<smvars, tkvars, psvars, ssvars, llvars>>
    \/ cleanup_save /\ Note /\ UNCHANGED <<smvars, tkvars, psvars, ssvars, llvars>>
    \/ cleanup_end /\ Note /\ UNCHANGED <<smvars, tkvars, psvars, ssvars, llvars>>
    \/ save_state_call /\ Note /\ UNCHANGED <<smvars, tkvars, psvars, ssvars, llvars>>
    \/ notify_state_change_call /\ Note /\ UNCHANGED <<smvars, tkvars, psvars, ssvars, llvars>>
    \/ \E o \in SaveOutcomes : save_write(o) /\ Note /\ UNCHANGED <<smvars, tkvars, psvars, ssvars, llvars>>
    \/ save_resume /\ Note /\ UNCHANGED <<smvars, tkvars, psvars, ssvars, llvars>>
SpecSave == Init /\ [][SaveNext]_vars

\* A token manager and one collection, truncated and truncated again.
InitTok == SMInit /\ AgentInit /\ NotesInit /\ TokInit /\ PersAtRest /\ SessAtRest /\ LlmAtRest
TokNext ==
    \/ truncate_messages_call /\ UNCHANGED <<smvars, agvars, wrvars, psvars, ssvars, llvars>>
    \/ truncate_messages_again /\ UNCHANGED <<smvars, agvars, wrvars, psvars, ssvars, llvars>>
SpecTok == InitTok /\ [][TokNext]_vars

\* The event loop resumes a task whose sleep is over (asyncio.sleep always ends)
\* and runs it to its next await.
SpecRun ==
    /\ Init
    /\ [][RunNext]_vars
    /\ WF_vars(run_loop /\ UNCHANGED <<smvars, wrvars, tkvars, psvars, ssvars, llvars>>)
    /\ WF_vars(run_wake /\ UNCHANGED <<smvars, wrvars, tkvars, psvars, ssvars, llvars>>)

\* A StatePersistence driven by arbitrary calls, on a file system that may fail
\* any of them.
PersNext ==
    \/ \E m \in PsMessages :
          AgentState_add_message(m)
              /\ UNCHANGED <<smvars, agvars, wrvars, tkvars, ssvars, llvars>>
    \/ AgentState_increment_step
          /\ UNCHANGED <<smvars, agvars, wrvars, tkvars, ssvars, llvars>>
    \/ AgentState_reset_steps
          /\ UNCHANGED <<smvars, agvars, wrvars, tkvars, ssvars, llvars>>
    \/ StatePersistence_save_state_call /\ UNCHANGED <<smvars, agvars, wrvars, tkvars, ssvars, llvars>>
    \/ \E o \in PsSaveOutcomes :
          StatePersistence_save_to_file_runs(o) /\ UNCHANGED <<smvars, agvars, wrvars, tkvars, ssvars, llvars>>
    \/ StatePersistence_save_state_returns /\ UNCHANGED <<smvars, agvars, wrvars, tkvars, ssvars, llvars>>
    \/ \E o \in PsLoadOutcomes :
          StatePersistence_load_state_call(o) /\ UNCHANGED <<smvars, agvars, wrvars, tkvars, ssvars, llvars>>
    \/ \E o \in PsDeleteOutcomes :
          StatePersistence_delete_state_call(o) /\ UNCHANGED <<smvars, agvars, wrvars, tkvars, ssvars, llvars>>

InitPers == SMInit /\ AgentInit /\ NotesInit /\ TokAtRest /\ PersInit /\ SessAtRest /\ LlmAtRest

SpecPers == InitPers /\ [][PersNext]_vars

\* An AgentSession used by two callers whose calls interleave where create_agent
\* or the cleanup of a Runtime suspends, and shut down by a third task, on a
\* file system that does not fail, with Runtimes saving and the process
\* starting again.
SessNext ==
    \/ \E t \in Callers, arg \in SessionIdArgs :
          create_session_begin(t, arg) /\ UNCHANGED <<smvars, agvars, wrvars, tkvars, psvars, llvars>>
    \/ \E t \in Callers, m \in CreateAgentOutcomes :
          create_session_end(t, m, "ok") /\ UNCHANGED <<smvars, agvars, wrvars, tkvars, psvars, llvars>>
    \/ \E t \in Callers, id \in AllSessionIds :
          get_session_begin(t, id) /\ UNCHANGED <<smvars, agvars, wrvars, tkvars, psvars, llvars>>
    \/ \E t \in Callers, m \in CreateAgentOutcomes :
          get_session_end(t, m, "ok") /\ UNCHANGED <<smvars, agvars, wrvars, tkvars, psvars, llvars>>
    \/ \E t \in Callers, id \in AllSessionIds :
          delete_session_begin(t, id, {}) /\ UNCHANGED <<smvars, agvars, wrvars, tkvars, psvars, llvars>>
    \/ \E t \in Callers :
          delete_session_cleanup_saves(t) /\ UNCHANGED <<smvars, agvars, wrvars, tkvars, psvars, llvars>>
    \/ \E t \in Callers :
          delete_session_end(t, "saved", {}) /\ UNCHANGED <<smvars, agvars, wrvars, tkvars, psvars, llvars>>
    \/ \E id \in AllSessionIds :
          runtime_saves(id) /\ UNCHANGED <<smvars, agvars, wrvars, tkvars, psvars, llvars>>
    \/ AgentSession_cleanup_begin(ShutdownTask, {})
          /\ UNCHANGED <<smvars, agvars, wrvars, tkvars, psvars, llvars>>
    \/ AgentSession_cleanup_agent_saves(ShutdownTask)
          /\ UNCHANGED <<smvars, agvars, wrvars, tkvars, psvars, llvars>>
    \/ AgentSession_cleanup_agent(ShutdownTask, "saved", {})
          /\ UNCHANGED <<smvars, agvars, wrvars, tkvars, psvars, llvars>>
    \/ restart({}) /\ UNCHANGED <<smvars, agvars, wrvars, tkvars, psvars, llvars>>

\* An AgentSession used by one caller, a call at a time, on a file system that
\* may fail any write and any removal, with time passing.
OneCallerNext ==
    \/ Tick /\ UNCHANGED <<smvars, wrvars, tkvars, psvars, ssvars, llvars>>
    \/ \E arg \in SessionIdArgs :
          create_session_begin(1, arg) /\ UNCHANGED <<smvars, agvars, wrvars, tkvars, psvars, llvars>>
    \/ \E m \in CreateAgentOutcomes, o \in MetaSaveOutcomes :
          create_session_end(1, m, o) /\ UNCHANGED <<smvars, agvars, wrvars, tkvars, psvars, llvars>>
    \/ \E id \in AllSessionIds :
          get_session_begin(1, id) /\ UNCHANGED <<smvars, agvars, wrvars, tkvars, psvars, llvars>>
    \/ \E m \in CreateAgentOutcomes, o \in MetaSaveOutcomes :
          get_session_end(1, m, o) /\ UNCHANGED <<smvars, agvars, wrvars, tkvars, psvars, llvars>>
    \/ \E id \in AllSessionIds :
          \E f \in RemovalFailuresOf(id) :
             delete_session_begin(1, id, f) /\ UNCHANGED <<smvars, agvars, wrvars, tkvars, psvars, llvars>>
    \/ delete_session_cleanup_saves(1) /\ UNCHANGED <<smvars, agvars, wrvars, tkvars, psvars, llvars>>
    \/ \E c \in CleanupOutcomes, f \in RemovalFailuresOf(ss_task[1].id) :
          delete_session_end(1, c, f) /\ UNCHANGED <<smvars, agvars, wrvars, tkvars, psvars, llvars>>
    \/ \E id \in AllSessionIds :
          runtime_saves(id) /\ UNCHANGED <<smvars, agvars, wrvars, tkvars, psvars, llvars>>
    \/ \E f \in StateRemovalFailures :
          AgentSession_cleanup_begin(1, f) /\ UNCHANGED <<smvars, agvars, wrvars, tkvars, psvars, llvars>>
    \/ AgentSession_cleanup_agent_saves(1) /\ UNCHANGED <<smvars, agvars, wrvars, tkvars, psvars, llvars>>
    \/ \E c \in CleanupOutcomes, f \in StateRemovalFailures :
          AgentSession_cleanup_agent(1, c, f) /\ UNCHANGED <<smvars, agvars, wrvars, tkvars, psvars, llvars>>
    \/ \E f \in FailuresMet(Disk(ss_meta, ss_state_files), now) :
          restart(f) /\ UNCHANGED <<smvars, agvars, wrvars, tkvars, psvars, llvars>>

InitSess == SMInit /\ AgentInit /\ NotesInit /\ TokAtRest /\ PersAtRest /\ SessInit /\ LlmAtRest
InitSess1 ==
    SMInit /\ AgentInit /\ NotesInit /\ TokAtRest /\ PersAtRest /\ SessInitFailing /\ LlmAtRest

SpecSess == InitSess /\ [][SessNext]_vars

SpecSess1 == InitSess1 /\ [][OneCallerNext]_vars

\* --------------------------- BaseAgent: claims --------------------------

\* process() has returned (or raised) and nothing was called since
AfterProcess == call.name = "process" /\ pc = "idle"
\* cleanup() has returned and nothing was called since
AfterCleanup == call.name = "cleanup" /\ pc = "idle"

EventsAt(ev, arg) == {i \in DOMAIN oplog : oplog[i] = Event(ev, arg)}

\* C5: when think() returns normally, the history is the history process() found,
\* followed by the user message and, for a text result, one assistant message
\* holding it; status is PROCESSING while think() runs and IDLE on return, and the
\* caller gets a value.
C5_ProcessAppendsTurn ==
    /\ pc = "thinking" => status = "PROCESSING"
    /\ (AfterProcess /\ ret.kind = "value") =>
          /\ messages = call.before \o <<Message(RoleUser, call.input)>>
                          \o (IF ret.text THEN <<Message(RoleAssistant, ret.val)>> ELSE <<>>)
          /\ status = "IDLE"

\* a text turn completed on a history that was not empty
C5_Witness ==
    /\ AfterProcess
    /\ ret.kind = "value" /\ ret.text
    /\ call.before # <<>>

\* C6: when think() raises, process() ends with status ERROR and state.error the
\* failure's description, the failure reaches the caller, no assistant message is
\* appended, and the callbacks of the change to ERROR have run by then.
C6_ProcessFailureEndsInError ==
    (AfterProcess /\ ret.kind = "raise") =>
        /\ status = "ERROR"
        /\ error = Some(ret.val)
        /\ messages = call.before \o <<Message(RoleUser, call.input)>>
        /\ \E i \in EventsAt("status", "ERROR") :
              /\ \A j \in DOMAIN oplog : oplog[j].ev = "status" => j <= i
              /\ Len(oplog) - i = Len(on_state_change)
              /\ \A k \in 1..Len(on_state_change) :
                    on_state_change[k] = "auto_save" => IsAutoSaveEvent(oplog[i + k])

\* think() raised and the auto-save of the change to ERROR wrote the file
C6_Witness ==
    /\ AfterProcess
    /\ ret.kind = "raise"
    /\ oplog[Len(oplog)] = Event("save_auto", "True")
    /\ file.kind = "state" /\ file.data.status = "ERROR"

\* C7 (as claimed): a turn in which think() raises or is cancelled leaves the
\* history as process() found it.
C7_FailedTurnCommitsNothing ==
    (AfterProcess /\ ret.kind \in {"raise", "cancelled"}) => messages = call.before

\* C8 (as claimed): status is always one of the state machine's valid states.
C8_StatusIsValidState == status \in BuiltinStates

\* C9: run() sets status RUNNING, makes at most MaxIdleLoops iterations, leaves
\* the loop at the first test that finds status no longer RUNNING, and always
\* comes to its end.
C9_RunTerminates ==
    /\ [](pc \in {"run_loop", "run_sleep"} => count <= MaxIdleLoops)
    /\ [][(pc = "idle" /\ pc' = "run_loop") => (status' = "RUNNING" /\ count' = 0)]_vars
    /\ [][(pc = "run_loop" /\ (status # "RUNNING" \/ count >= MaxIdleLoops)) => pc' = "idle"]_vars
    /\ (pc \in {"run_loop", "run_sleep"}) ~> (pc = "idle")

\* run() ended after the full number of iterations with nobody changing the status
C9_Witness ==
    /\ call.name = "run" /\ pc = "idle"
    /\ ret.kind = "value"
    /\ count = MaxIdleLoops
    /\ oplog = <<Event("set_status", "RUNNING"), Event("set_status", "IDLE")>>

\* C10: cleanup() changes status to STOPPING and then to STOPPED, ends in STOPPED,
\* and between the two changes, after the callbacks of the first, attempts a
\* save whatever the time since the last successful save.
C10_CleanupStopsAndSaves ==
    /\ pc \in {"cleanup_save", "cleanup_end"} => status = "STOPPING"
    /\ AfterCleanup =>
          /\ status = "STOPPED"
          /\ SelectSeq(oplog, LAMBDA e : e.ev = "status")
                = <<Event("status", "STOPPING"), Event("status", "STOPPED")>>
          /\ oplog[1] = Event("status", "STOPPING")
          /\ \E i \in EventsAt("status", "STOPPED") :
                /\ i \in {3, 4}
                /\ IsSaveAttempt(oplog[i - 1])
                /\ i = 4 => IsAutoSaveEvent(oplog[2])

\* cleanup() attempted its save right after the auto-save was skipped as too early
C10_Witness ==
    /\ AfterCleanup
    /\ Len(oplog) >= 4
    /\ oplog[2] = Event("autosave_skip", "")
    /\ oplog[3].ev = "save_direct"

\* the AgentState fields, now and after the step
StateNow == [status |-> status, messages |-> messages, error |-> error]
StateNext == [status |-> status', messages |-> messages', error |-> error']

\* C11: a load_state() call that finds a decodable state file replaces the
\* AgentState by the file's content and returns True; one that finds the file
\* absent or undecodable leaves the AgentState as it was and returns False; in
\* both cases the call returns a value and the file is left alone.
C11_LoadReplacesOrLeaves ==
    [][call'.name = "load_state" =>
          /\ file' = file
          /\ ret'.kind = "value"
          /\ IF file.kind = "state"
             THEN ret'.val = "True" /\ StateNext = FromDict(file.data)
             ELSE ret'.val = "False" /\ StateNext = StateNow]_vars

\* load_state() returned True and put another history in place of the one it found
C11_Witness ==
    /\ call.name = "load_state" /\ pc = "idle"
    /\ ret = Returned("True")
    /\ call.before # <<>>
    /\ messages # call.before

\* the event a state-change callback leaves in the log
IsEventOf(cb, e) ==
    IF cb = "auto_save" THEN IsAutoSaveEvent(e) ELSE e = Event("callback", cb)

\* the list _notify_state_change went through at the status change logged at i:
\* the list the call found, or, once cleanup()'s save_state has attached
\* persistence, the list as it is now
CallbacksAt(i) ==
    IF \E j \in 1..(i - 1) : oplog[j].ev = "save_direct" THEN on_state_change ELSE call.cbs

StatusEvents == {i \in DOMAIN oplog : oplog[i].ev = "status"}

\* the notifications of the call: each runs the state-change callbacks once
Notifications == {i \in DOMAIN oplog : oplog[i].ev \in {"status", "notify"}}

\* the callbacks of the status change logged at i have not all left their
\* event in the log
Unfinished(i) == i + Len(CallbacksAt(i)) > Len(oplog)

\* the call is suspended in the save of the auto-save callback of the status
\* change logged at i: the callbacks registered before the auto-save have run,
\* those registered after it wait for it
SuspendedInAutoSaveOf(i) ==
    /\ pc = "saving"
    /\ The(saving).via = "auto"
    /\ LET cbs == CallbacksAt(i)
           j == IF The(saving).stage = "snapshot"
                THEN Len(oplog) - i + 1 ELSE Len(oplog) - i
       IN  /\ j \in DOMAIN cbs
           /\ cbs[j] = "auto_save"
           /\ The(saving).rest = SubSeq(cbs, j + 1, Len(cbs))

\* C12: in process() and cleanup(), every status change is followed at once by
\* the state-change callbacks, one after the other in registration order (the
\* auto-save among them, at its place): while the save of the auto-save is under
\* way no callback registered after it has run; and when the operation has
\* returned no save is under way and the callbacks of its last status change
\* have all completed.
C12_CallbacksInOrderBeforeReturn ==
    call.name \in {"process", "cleanup"} =>
        /\ \A i \in StatusEvents :
              /\ \A k \in 1..Len(CallbacksAt(i)) :
                    i + k <= Len(oplog) => IsEventOf(CallbacksAt(i)[k], oplog[i + k])
              /\ Unfinished(i) => SuspendedInAutoSaveOf(i)
        /\ pc = "idle" => IsNone(saving)
        /\ (pc = "idle" /\ ret.kind \in {"value", "raise"}) =>
              \E i \in StatusEvents : i + Len(CallbacksAt(i)) = Len(oplog)

\* process() returned after an observer, the auto-save and a raising observer ran
\* in that order, the auto-save having written the file with the final status
C12_Witness ==
    /\ AfterProcess /\ ret.kind = "value"
    /\ on_state_change = <<"obs", "auto_save", "bad">>
    /\ SubSeq(oplog, Len(oplog) - 3, Len(oplog))
          = <<Event("status", "IDLE"), Event("callback", "obs"),
              Event("save_auto", "True"), Event("callback", "bad")>>
    /\ file.kind = "state" /\ file.data.status = "IDLE"

\* how often x occurs in a sequence
Occurrences(seq, x) == Cardinality({i \in DOMAIN seq : seq[i] = x})

\* C13: with callbacks that raise among the registered ones, process() and
\* cleanup() end as they do without them (process: two status changes, the turn
\* appended, status IDLE, or ERROR when think() raised; cleanup: two status
\* changes around a save attempt, status STOPPED), and every registered callback,
\* before or after a raising one, has been invoked once per status change
\* (state-change callbacks, a failing auto-save included) or once per appended
\* message (message callbacks).
C13_CallbackErrorsAreContained ==
    (call.name \in {"process", "cleanup"} /\ pc = "idle" /\ ret.kind \in {"value", "raise"}) =>
        /\ Cardinality(StatusEvents) = 2
        /\ \A cb \in ObserverKinds :
              /\ Occurrences(oplog, Event("callback", cb))
                    = 2 * Occurrences(call.cbs, cb)
              /\ Occurrences(oplog, Event("message_callback", cb))
                    = (Len(messages) - Len(call.before)) * Occurrences(on_message, cb)
        /\ Cardinality({i \in DOMAIN oplog : IsAutoSaveEvent(oplog[i])})
              = Cardinality({i \in StatusEvents : Occurrences(CallbacksAt(i), "auto_save") > 0})
        /\ call.name = "process" =>
              /\ status = (IF ret.kind = "value" THEN "IDLE" ELSE "ERROR")
              /\ messages = call.before \o <<Message(RoleUser, call.input)>>
                              \o (IF ret.text THEN <<Message(RoleAssistant, ret.val)>> ELSE <<>>)
        /\ call.name = "cleanup" =>
              /\ status = "STOPPED"
              /\ \E i \in DOMAIN oplog : oplog[i].ev = "save_direct"

\* a turn completed although the first state-change callback and the first
\* message callback raise, and the auto-save of its last change failed
C13_Witness ==
    /\ AfterProcess /\ ret.kind = "value" /\ ret.text
    /\ on_message = <<"bad", "obs">>
    /\ on_state_change = <<"bad", "auto_save", "obs">>
    /\ SubSeq(oplog, Len(oplog) - 2, Len(oplog))
          = <<Event("callback", "bad"), Event("save_auto", "False"), Event("callback", "obs")>>

\* ------------------------ auto-save throttling: claims -------------------

\* two notifications have followed each other, and the auto-save of neither
\* is still to be written
TwoChangesMade ==
    /\ Len(changes) = 2
    /\ changes[1].auto # "begun" /\ changes[2].auto # "begun"
\* no save failed between the two, nor did the auto-save of the second
SavesSucceeded == changes[1].clean /\ changes[2].auto # "failed"
\* how many of the two were written by the auto-save
WritesOfTwo == Cardinality({i \in 1..2 : changes[i].auto = "written"})
\* the time read by the last save that wrote the file between the two
\* notifications, the auto-save of the first included (optional)
SavedBetween ==
    IF ~ IsNone(changes[1].later) THEN changes[1].later
    ELSE IF changes[1].auto = "written" THEN Some(changes[1].at)
    ELSE NoneV

\* C14 (as claimed): with saves succeeding, two consecutive state changes
\* cause exactly one write of the state file when less than SaveInterval
\* apart and two when at least SaveInterval apart; and two writes by the
\* auto-save are never less than SaveInterval apart.
C14_TwoChangesOneOrTwoWrites ==
    /\ (TwoChangesMade /\ SavesSucceeded) =>
          WritesOfTwo = (IF changes[2].at - changes[1].at < SaveInterval THEN 1 ELSE 2)
    /\ \A i, j \in DOMAIN auto_writes :
          i < j => auto_writes[j].at - auto_writes[i].at >= SaveInterval

\* C14 (amended): two writes by the auto-save are of saves that read the clock
\* at least SaveInterval apart.  Of two consecutive notifications, in whatever
\* calls, with saves succeeding: when a save wrote the file between them (the
\* auto-save of the first, or an explicit save after it, whose time counts if
\* there is one) the second is written exactly when it comes at least
\* SaveInterval after the time that save read; when none did, the first having
\* been skipped inside the window of an earlier save, the two cause at most
\* one write.  So the counts claimed (one write when less than SaveInterval
\* apart, two otherwise) hold when the first was written and no explicit save
\* wrote between the two.
C14_ThrottledWrites ==
    /\ \A i, j \in DOMAIN auto_writes :
          i < j => auto_writes[j].read - auto_writes[i].read >= SaveInterval
    /\ (TwoChangesMade /\ SavesSucceeded) =>
          /\ ~ IsNone(SavedBetween) =>
                (changes[2].auto = "written"
                    <=> changes[2].at - The(SavedBetween) >= SaveInterval)
          /\ IsNone(SavedBetween) => WritesOfTwo <= 1
          /\ (changes[1].auto = "written" /\ IsNone(changes[1].later)) =>
                WritesOfTwo = (IF changes[2].at - changes[1].at < SaveInterval
                               THEN 1 ELSE 2)

\* cleanup() made its two status changes SaveInterval apart: the first was
\* written, the explicit save between them wrote later, and the second, less
\* than SaveInterval after that save, was skipped
C14_Witness ==
    /\ TwoChangesMade /\ SavesSucceeded
    /\ call.name = "cleanup" /\ pc = "idle"
    /\ changes[1].auto = "written"
    /\ ~ IsNone(changes[1].later) /\ The(changes[1].later) > changes[1].at
    /\ changes[2].at - changes[1].at >= SaveInterval
    /\ changes[2].auto = "skipped"

\* the auto-save callback ran at i, and no save was attempted and no auto-save
\* callback ran between the failed save at f and i
NextAutoSaveAfter(f, i) ==
    /\ f < i
    /\ IsSaveAttempt(oplog[f]) /\ oplog[f].arg = "False"
    /\ IsAutoSaveEvent(oplog[i])
    /\ \A k \in (f + 1)..(i - 1) : ~ IsSaveAttempt(oplog[k]) /\ ~ IsAutoSaveEvent(oplog[k])

\* C15 (as claimed): after a save that failed, the next status change attempts
\* a save.
C15_ChangeAfterFailedSaveAttempts ==
    \A f, i \in DOMAIN oplog : NextAutoSaveAfter(f, i) => oplog[i].ev = "save_auto"

\* the save that last wrote the file in full read the clock less than
\* SaveInterval ago
InsideWindow == ~ IsNone(last_write) /\ now - The(last_write) < SaveInterval

\* the write of a save is over and the caller's task has not resumed yet
AwaitingResume == pc = "saving" /\ The(saving).stage = "written"

\* in this step the auto-save callback starts a save
AutoSaveBegins ==
    /\ saving' # saving
    /\ ~ IsNone(saving')
    /\ The(saving').stage = "snapshot" /\ The(saving').via = "auto"

\* in this step the auto-save callback returns without saving
AutoSaveSkips == \E i \in DOMAIN NewEvents : NewEvents[i].ev = "autosave_skip"

\* C15 (amended): once a save has returned, last_save_time is the time read by
\* the last save that succeeded, and it is left alone by a save that fails; the
\* auto-save of a status change is skipped exactly when a save succeeded less
\* than SaveInterval before, however recently a save failed; after an
\* auto-save that failed, the next notification attempts a save when no
\* explicit save has written the file in between, and when one has, is
\* skipped exactly when it comes less than SaveInterval after the time that
\* save read; and the file changes only in a step that writes for a save,
\* begun on a status change or in save_state(): a skipped save is not made up
\* for later.
C15_WindowFromLastSuccess ==
    /\ [](~ AwaitingResume => last_save_time = last_write)
    /\ []((Len(changes) = 2 /\ changes[1].auto = "failed") =>
             IF IsNone(changes[1].later)
             THEN changes[2].auto # "skipped"
             ELSE changes[2].auto = "skipped"
                     <=> changes[2].at - The(changes[1].later) < SaveInterval)
    /\ [][now' = now =>
             /\ AutoSaveSkips => InsideWindow
             /\ AutoSaveBegins => ~ InsideWindow
             /\ ~ (AutoSaveSkips /\ AutoSaveBegins)]_vars
    /\ [][file' # file =>
             /\ now' = now
             /\ pc = "saving"
             /\ \E i \in DOMAIN NewEvents : IsSaveAttempt(NewEvents[i])]_vars

\* in one turn the auto-save failed at the first status change and was
\* attempted again, with success, at the second, less than SaveInterval later
C15_Witness ==
    /\ AfterProcess
    /\ oplog = <<Event("status", "PROCESSING"), Event("save_auto", "False"),
                 Event("status", "IDLE"), Event("save_auto", "True")>>
    /\ Len(changes) = 2
    /\ changes[1].auto = "failed" /\ changes[2].auto = "written"
    /\ changes[2].at - changes[1].at < SaveInterval
    /\ last_save_time = Some(changes[2].at)

\* --------------------------- persistence wiring --------------------------

\* C16: whatever calls were made, the auto-save callback is in the state-change
\* list once if persistence is attached and not at all otherwise; persistence is
\* attached after any of initialize(), save_state() and load_state(), and once
\* attached stays; and a call makes no more auto-save attempts than it makes
\* notifications (its status changes, or the one of notify_state_change()).
C16_WiredOnce ==
    /\ Occurrences(on_state_change, "auto_save") = (IF persistence THEN 1 ELSE 0)
    /\ call.name \in {"initialize", "save_state", "load_state"} => persistence
    /\ Cardinality({i \in DOMAIN oplog : IsAutoSaveEvent(oplog[i])})
          <= Cardinality(Notifications)

\* initialize() was called a second time, after a save and a successful load
C16_Witness ==
    /\ call.name = "initialize"
    /\ Len(call.before) >= 1
    /\ file.kind = "state" /\ file.data.messages # <<>>
    /\ Len(messages) >= 2
    /\ on_state_change = <<"auto_save">>

\* --------------------------- TokenManager: claims ------------------------

\* the budget and the cost of a collection as the counting capability measures it
Budget == max_tokens - reserved_tokens
MeasuredCost(ms) == count_message_tokens(ms, tk_overhead)
Fits(ms) == MeasuredCost(ms) <= Budget

\* the priority truncate_messages goes by for the message at position i
EffectivePriority(i) ==
    IF IsNone(tk_priorities)
    THEN (IF tk_messages[i].role = "system" THEN "SYSTEM" ELSE "NORMAL")
    ELSE PriorityGet(The(tk_priorities), i, "NORMAL")

\* C17: a collection whose measured cost is at most max_tokens - reserved_tokens
\* is returned as it is, with remaining = budget - measured cost; and given its
\* own result, when that fits, truncate_messages returns it again with the same
\* remaining.
C17_FittingIsReturnedUnchanged ==
    /\ (~ IsNone(tk_result) /\ Fits(tk_messages)) =>
          /\ The(tk_result).messages = tk_messages
          /\ The(tk_result).remaining = Budget - MeasuredCost(tk_messages)
    /\ (~ IsNone(tk_again) /\ Fits(The(tk_result).messages)) =>
          /\ The(tk_again).messages = The(tk_result).messages
          /\ The(tk_again).remaining = The(tk_result).remaining
          /\ The(tk_again).remaining = Budget - MeasuredCost(The(tk_result).messages)

\* a collection of two messages that fits with tokens to spare went through
\* truncate_messages twice
C17_Witness ==
    /\ ~ IsNone(tk_again)
    /\ Len(tk_messages) >= 2
    /\ Fits(tk_messages)
    /\ The(tk_again).remaining > 0

\* C18: no message of priority SYSTEM is removed, whatever the collection, the
\* budget and the cost; the result is the collection without the removed ones.
C18_SystemNeverEvicted ==
    ~ IsNone(tk_result) =>
        /\ \A i \in The(tk_result).removed : EffectivePriority(i) # "SYSTEM"
        /\ The(tk_result).removed \subseteq DOMAIN tk_messages
        /\ The(tk_result).messages = Without(tk_messages, The(tk_result).removed)

\* every other message was removed and the SYSTEM messages, kept, exceed the budget
C18_Witness ==
    /\ ~ IsNone(tk_result)
    /\ The(tk_result).removed # {}
    /\ The(tk_result).remaining < 0
    /\ Len(The(tk_result).messages) >= 1
    /\ \A i \in DOMAIN tk_messages :
          i \in The(tk_result).removed <=> EffectivePriority(i) # "SYSTEM"

\* message i is considered for eviction before message j
ConsideredBefore(i, j) ==
    \/ TokenPriorityValue(EffectivePriority(i)) > TokenPriorityValue(EffectivePriority(j))
    \/ /\ EffectivePriority(i) = EffectivePriority(j)
       /\ i < j

RECURSIVE CostOf(_)
CostOf(indices) ==
    IF indices = {} THEN 0
    ELSE LET i == CHOOSE x \in indices : TRUE
         IN  count_tokens(tk_messages[i]) + CostOf(indices \ {i})

\* what is still to be removed when message i is considered
Outstanding(i) ==
    MeasuredCost(tk_messages) - Budget
      - CostOf({k \in The(tk_result).removed : ConsideredBefore(k, i)})

\* the worked example: budget 80, costs 50 (SYSTEM), 40 (NORMAL), 30 (NORMAL)
IsExample ==
    /\ max_tokens = 100 /\ reserved_tokens = 20 /\ tk_overhead = 0
    /\ tk_priorities = NoneV
    /\ tk_messages = <<TkMessage("system", 50), TkMessage("user", 40), TkMessage("user", 30)>>

\* C19: when the collection does not fit, the messages below SYSTEM are gone
\* through from LOW to CRITICAL, those of equal priority from the first to the
\* last: a message is removed exactly if, when its turn comes, something is
\* still to be removed and its cost is no more than that.  On the worked example
\* the result is [SYSTEM(50), NORMAL(30)] with 0 remaining.
C19_EvictionOrder ==
    ~ IsNone(tk_result) =>
        /\ ~ Fits(tk_messages) =>
              \A i \in DOMAIN tk_messages :
                  i \in The(tk_result).removed <=>
                      /\ EffectivePriority(i) # "SYSTEM"
                      /\ Outstanding(i) > 0
                      /\ count_tokens(tk_messages[i]) <= Outstanding(i)
        /\ IsExample =>
              /\ The(tk_result).messages = <<TkMessage("system", 50), TkMessage("user", 30)>>
              /\ The(tk_result).remaining = 0

\* the worked example has been truncated
C19_Witness ==
    /\ IsExample
    /\ ~ IsNone(tk_result)
    /\ The(tk_result).removed # {}

\* C20 (as claimed): the returned collection exceeds the budget only if it holds
\* nothing but SYSTEM messages.
C20_OverBudgetOnlyIfSystemOnly ==
    (~ IsNone(tk_result) /\ The(tk_result).remaining < 0) =>
        \A i \in DOMAIN tk_messages :
            i \notin The(tk_result).removed => EffectivePriority(i) = "SYSTEM"

\* C21: truncate_messages always returns a pair, a collection and a number:
\* the number is the budget less the cost measured again on the returned
\* collection, on the first call and on a call with its own result, and it is
\* negative exactly when the returned collection costs more than the budget.
C21_HeadroomIsRemeasured ==
    /\ ~ IsNone(tk_result) =>
          /\ DOMAIN The(tk_result) = {"messages", "remaining", "removed"}
          /\ The(tk_result).remaining = Budget - MeasuredCost(The(tk_result).messages)
          /\ The(tk_result).remaining < 0 <=> ~ Fits(The(tk_result).messages)
    /\ ~ IsNone(tk_again) =>
          /\ The(tk_again).remaining = Budget - MeasuredCost(The(tk_again).messages)
          /\ The(tk_again).remaining < 0 <=> ~ Fits(The(tk_again).messages)

\* messages were removed, the measurement counts more than the contents, and
\* what is left is still over the budget
C21_Witness ==
    /\ ~ IsNone(tk_result)
    /\ The(tk_result).removed # {}
    /\ tk_overhead > 0
    /\ The(tk_result).messages # <<>>
    /\ The(tk_result).remaining < 0

\* ----------------------- StatePersistence: claims -----------------------

\* the caller is between two calls: none is suspended
PsBetweenCalls == IsNone(ps_saving)

\* load_state has just read a complete file, which the last save that returned
\* True wrote and nothing has touched since
LoadedAfterSave ==
    /\ PsBetweenCalls
    /\ ps_call.name = "load_state"
    /\ ps_call.outcome = "ok"
    /\ ps_file.kind = "json"

\* a metadata dict as it is after a trip through JSON
ThroughJson(d) == JsonDecodeDict(JsonEncodeDict(d))

JsonNative(pv) == pv.t \in {"list", "dict_str_key"}

C23_FailedSaveKeepsPrevious ==
    (/\ PsBetweenCalls
     /\ ps_call.name = "save_state"
     /\ ps_ret = PsBool(FALSE)
     /\ ps_call.before = "json"
     /\ ~ IsNone(ps_saved)) =>
        /\ ps_file.kind = "json"
        /\ LET again == StatePersistence_load_state(ps_file, "ok")
           IN  /\ again.kind = "state"
               /\ The(again.val) = [The(ps_saved) EXCEPT !.metadata = ThroughJson(@)]

\* C24: no call of StatePersistence raises.  save_state returns False when the
\* file cannot be opened or written; load_state returns None when there is no
\* file, when it cannot be read and when it is not a complete document;
\* delete_state returns True and leaves no file when there is none, False when
\* the file cannot be removed, and a delete_state right after one that
\* returned True returns True again, with no file left.
C24_NoErrorEscapes ==
    PsBetweenCalls =>
    /\ ps_ret.kind # "raise"
    /\ ps_call.name = "save_state" =>
          /\ ps_ret.kind \in {"True", "False"}
          /\ ps_call.outcome # "ok" => ps_ret = PsBool(FALSE)
    /\ ps_call.name = "load_state" =>
          /\ ps_ret.kind \in {"None", "state"}
          /\ (ps_call.before # "json" \/ ps_call.outcome # "ok") => ps_ret = PsNone
          /\ ps_file.kind = ps_call.before
    /\ ps_call.name = "delete_state" =>
          /\ ps_ret.kind \in {"True", "False"}
          /\ ps_call.before = "absent" => (ps_ret = PsBool(TRUE) /\ ps_file = NoFile)
          /\ ps_ret = PsBool(TRUE) => ps_file = NoFile
          /\ (ps_call.before # "absent" /\ ps_call.outcome = "remove_fails") =>
                (ps_ret = PsBool(FALSE) /\ ps_file.kind = ps_call.before)
          /\ ps_call.prev = <<"delete_state", "True">> =>
                (ps_ret = PsBool(TRUE) /\ ps_file = NoFile)

\* delete_state was called twice in a row on a file that existed
C24_Witness ==
    /\ ps_call.name = "delete_state"
    /\ ps_call.prev = <<"delete_state", "True">>
    /\ ps_call.before = "absent"
    /\ ps_ret = PsBool(TRUE)
    /\ ps_file = NoFile

\* ------------------------------------------------------------------------
\* AgentSession: claims
\* ------------------------------------------------------------------------

\* C25 (as claimed): a Runtime stored for an id stays the one stored for it
\* until the id leaves the cache, and a create_session or get_session that ends
\* while the id is cached returns the cached Runtime, however the calls of two
\* callers interleave at the construction of the agent.
C25_CachedRuntimeIsKept ==
    [][/\ \A id \in DOMAIN active_sessions \cap DOMAIN active_sessions' :
              active_sessions'[id] = active_sessions[id]
       /\ \A t \in DOMAIN ss_task :
              (ss_task[t].pc = "create_agent" /\ ss_task'[t].pc = "idle"
                 /\ ss_task[t].id \in DOMAIN active_sessions
                 /\ ss_last'.ret.kind # "raise")
                 => ss_last'.ret = SsAgent(active_sessions[ss_task[t].id])]_vars

\* "default" is no key of the cache and not the id any call goes by; a
\* create_session(session_id="default") goes by a generated id, which is not
\* "default", and, unless the construction of the agent raises, returns the
\* Runtime cached under that id; get_session("default") returns None
DefaultIsNeverLive ==
    /\ "default" \notin DOMAIN active_sessions
    /\ \A t \in DOMAIN ss_task : ss_task[t].id # "default"
    /\ (ss_last.op = "create_session" /\ ss_last.arg = Some("default")) =>
          /\ ss_last.id \in UuidPool
          /\ ss_last.id # "default"
          /\ ss_last.ret.kind # "raise" =>
                /\ ss_last.id \in DOMAIN active_sessions
                /\ ss_last.ret = SsAgent(active_sessions[ss_last.id])
    /\ (ss_last.op = "get_session" /\ ss_last.arg = Some("default")) =>
          ss_last.ret = SsNone

\* C26 (as claimed): "default" is never a live session and never a persisted
\* one: it is no key of active_sessions, create_session(session_id="default")
\* goes by a generated id, get_session("default") returns None, and no metadata
\* file and no state file of "default" is on disk.
C26_DefaultNeverLiveNorPersisted ==
    /\ DefaultIsNeverLive
    /\ "default" \notin DOMAIN ss_meta
    /\ "default" \notin ss_state_files

\* C26 (amended): "default" is never a live session, and the Session Manager
\* never persists one: no step creates or rewrites a metadata file or a state
\* file of "default".  The files of a "default" session that an earlier version
\* left are gone after a construction in which their removal did not fail; one
\* whose removal failed stays on disk, and get_session("default") returns None
\* all the same.
C26_DefaultIsNeverLive ==
    /\ [](DefaultIsNeverLive)
    /\ []((ss_last.op = "init" /\ \A q \in ss_last.failed : q[1] # "default") =>
             ("default" \notin DOMAIN ss_meta /\ "default" \notin ss_state_files))
    /\ [][/\ "default" \in DOMAIN ss_meta' =>
                ("default" \in DOMAIN ss_meta /\ ss_meta'["default"] = ss_meta["default"])
          /\ "default" \in ss_state_files' => "default" \in ss_state_files]_vars

\* create_session(session_id="default") has returned a Runtime, while the
\* metadata file of a "default" session that could not be removed is on disk
C26_Witness ==
    /\ ss_last.op = "create_session"
    /\ ss_last.arg = Some("default")
    /\ ss_last.id \in UuidPool
    /\ ss_last.ret.kind = "agent"
    /\ "default" \in DOMAIN ss_meta
    /\ ss_last.id \in DOMAIN ss_meta

\* a call of get_session returns in this step
GetSessionReturns == ss_last' # ss_last /\ ss_last'.op = "get_session"

\* C27 (as claimed): get_session(id), for an id other than "default".  A cached
\* Runtime is returned and nothing changes.  With nothing cached and a metadata
\* record that can be read, a Runtime that is none of the cached ones is
\* returned and cached under id, the record's last_active becomes the time of
\* the call when the metadata file can be written, and no other file changes.
\* With nothing cached and no record that can be read, the result is None,
\* nothing is cached and no file is created or changed.  No call raises.
C27_RecordMeansRuntime ==
    [][GetSessionReturns /\ ss_last'.id # "default" =>
          LET id == ss_last'.id
              cached == id \in DOMAIN active_sessions
              record == load_session_metadata(ss_meta, id)
          IN  /\ ss_last'.ret.kind # "raise"
              /\ cached =>
                    /\ ss_last'.ret = SsAgent(active_sessions[id])
                    /\ UNCHANGED <<active_sessions, ss_meta, ss_state_files>>
              /\ (~ cached /\ ~ IsNone(record)) =>
                    /\ ss_last'.ret.kind = "agent"
                    /\ active_sessions' = PutMeta(active_sessions, id, ss_last'.ret.agent)
              /\ (~ cached /\ IsNone(record)) =>
                    /\ ss_last'.ret = SsNone
                    /\ UNCHANGED <<active_sessions, ss_meta, ss_state_files>>]_vars

\* C27 (amended): get_session(id), for an id other than "default".  A cached
\* Runtime is returned and nothing changes.  With nothing cached and a metadata
\* record that can be read, the construction of a Runtime is attempted: when it
\* raises, get_session raises, nothing is cached and no file changes; otherwise
\* a Runtime that is none of the cached ones is returned and cached under id,
\* the record's last_active becomes the time of the call when the metadata
\* file can be written, and no other file changes.  With nothing cached and no
\* record that can be read, the result is None, nothing is raised, nothing is
\* cached and no file is created or changed.
C27_GetSession ==
    [][GetSessionReturns /\ ss_last'.id # "default" =>
          LET id == ss_last'.id
              cached == id \in DOMAIN active_sessions
              record == load_session_metadata(ss_meta, id)
          IN  /\ cached =>
                    /\ ss_last'.ret = SsAgent(active_sessions[id])
                    /\ UNCHANGED <<active_sessions, ss_meta, ss_state_files>>
              /\ (~ cached /\ ~ IsNone(record) /\ ss_last'.ret.kind = "raise") =>
                    UNCHANGED <<active_sessions, ss_meta, ss_state_files>>
              /\ (~ cached /\ ~ IsNone(record) /\ ss_last'.ret.kind # "raise") =>
                    /\ ss_last'.ret.kind = "agent"
                    /\ \A k \in DOMAIN active_sessions :
                          active_sessions[k] # ss_last'.ret.agent
                    /\ active_sessions' = PutMeta(active_sessions, id, ss_last'.ret.agent)
                    /\ ss_last'.failed = {} =>
                          ss_meta' = PutMeta(ss_meta, id, MetaRecord(now))
                    /\ \A k \in DOMAIN ss_meta \ {id} :
                          k \in DOMAIN ss_meta' /\ ss_meta'[k] = ss_meta[k]
                    /\ DOMAIN ss_meta' = DOMAIN ss_meta
                    /\ UNCHANGED ss_state_files
              /\ (~ cached /\ IsNone(record)) =>
                    /\ ss_last'.ret = SsNone
                    /\ UNCHANGED <<active_sessions, ss_meta, ss_state_files>>]_vars

\* get_session has restored a session from its files after a restart, at a
\* later time than the one its record held
C27_Witness ==
    /\ ss_last.op = "get_session"
    /\ ss_last.ret.kind = "agent"
    /\ ss_last.attempted = {"metadata"}
    /\ ss_last.failed = {}
    /\ ss_last.id \in DOMAIN active_sessions
    /\ ss_last.id \in ss_state_files
    /\ ss_meta[ss_last.id] = MetaRecord(now)
    /\ now > 0

\* C28 (as claimed): after delete_session(id) has returned True, id is not in
\* the cache, its metadata file does not exist and its state file does not
\* exist.
C28_DeletedEverywhere ==
    (ss_last.op = "delete_session" /\ ss_last.ret = SsBool(TRUE)) =>
        /\ ss_last.id \notin DOMAIN active_sessions
        /\ ss_last.id \notin DOMAIN ss_meta
        /\ ss_last.id \notin ss_state_files

\* C29 (as claimed): delete_session does not raise; when one of its steps has
\* failed, each file of the session that is still there is one whose removal
\* was attempted; and it returns True only if get_session(id) would return None.
C29_BestEffortAndHonest ==
    ss_last.op = "delete_session" =>
        /\ ss_last.ret.kind # "raise"
        /\ ss_last.failed # {} =>
              /\ ss_last.id \in DOMAIN ss_meta => "meta" \in ss_last.attempted
              /\ ss_last.id \in ss_state_files => "state" \in ss_last.attempted
        /\ ss_last.ret = SsBool(TRUE) =>
              /\ ss_last.id \notin DOMAIN active_sessions
              /\ IsNone(load_session_metadata(ss_meta, ss_last.id))

\* what the sweep of a construction owes to the record of id, when the
\* removals in fail have raised
SweepOwes(id, fail) ==
    LET rec == ss_meta[id]
        cutoff == now - MaxAgeDays
    IN  /\ (rec.kind = "json" /\ rec.last_active < cutoff
               /\ <<id, "meta">> \notin fail /\ <<id, "state">> \notin fail) =>
              /\ id \notin DOMAIN ss_meta'
              /\ id \notin ss_state_files'
        /\ (rec.kind = "json" /\ rec.last_active >= cutoff) =>
              /\ id \in DOMAIN ss_meta'
              /\ ss_meta'[id] = rec
              /\ id \in ss_state_files' <=> id \in ss_state_files

\* C30: the construction of a Session Manager removes every metadata record
\* whose last_active is before now minus the retention window, together with
\* its state file, and leaves every record whose last_active is not before it
\* as it is, with its state file; a removal that fails on one record, or a
\* record that cannot be read, does not keep the others from being swept.
C30_ExpirySweep ==
    [][(ss_last'.op = "init" /\ ss_last' # ss_last) =>
          \A id \in DOMAIN ss_meta \ {"default"} : SweepOwes(id, ss_last'.failed)]_vars

\* a construction has swept one expired session, metadata and state file,
\* after the removal of another expired session's state file had failed
C30_Witness ==
    /\ ss_last.op = "init"
    /\ \E a, b \in AllSessionIds \ {"default"} :
          /\ a # b
          /\ <<a, "state">> \in ss_last.failed
          /\ a \in DOMAIN ss_meta /\ a \in ss_state_files
          /\ {<<b, "meta">>, <<b, "state">>} \subseteq ss_last.attempted \ ss_last.failed
          /\ b \notin DOMAIN ss_meta /\ b \notin ss_state_files

\* a call of AgentSession.cleanup ends in this step
CleanupReturns == ss_last' # ss_last /\ ss_last'.op = "cleanup"

\* C31 (as claimed): after the orphan sweep has run, every state file has a
\* metadata file of the same id, and every state file that had one is still
\* there.
C31_NoOrphanRemains ==
    [][CleanupReturns =>
          /\ \A id \in ss_state_files' : id \in DOMAIN ss_meta'
          /\ \A id \in ss_state_files \cap DOMAIN ss_meta : id \in ss_state_files']_vars

\* the Runtimes that were live when the cleanup that ends in this step started
LoopedOver ==
    UNION {{ss_task[t].live[i] : i \in DOMAIN ss_task[t].live} :
              t \in {u \in DOMAIN ss_task : InCleanupLoop(u) /\ ss_task'[u].pc = "idle"}}

\* those of them whose cleanup neither raised nor failed to save
CleanedAndSaved ==
    {id \in LoopedOver :
        <<id, "raises">> \notin ss_last'.failed /\ <<id, "save_fails">> \notin ss_last'.failed}

\* C32 (as claimed): AgentSession.cleanup() runs the cleanup of every Runtime
\* that was live when it started, whichever of them raise, and leaves the cache
\* empty; the state files just saved by those Runtimes are there after the
\* orphan sweep.
C32_SavedFilesSurvive ==
    [][CleanupReturns =>
          /\ \A id \in LoopedOver : <<id, "cleanup">> \in ss_last'.attempted
          /\ active_sessions' = <<>>
          /\ \A id \in CleanedAndSaved : id \in ss_state_files']_vars

\* C32 (amended): AgentSession.cleanup() runs the cleanup of every Runtime that
\* was live when it started, whichever of them raise; it leaves the cache
\* empty; and the orphan sweep comes after the saves: the state file just saved
\* by a Runtime that has a metadata file is there afterwards, and the one just
\* saved by a Runtime that has none is removed by the sweep, unless a removal
\* raises.  No metadata file is changed.
C32_CleanupThenSweep ==
    [][CleanupReturns =>
          /\ \A id \in LoopedOver : <<id, "cleanup">> \in ss_last'.attempted
          /\ active_sessions' = <<>>
          /\ \A id \in CleanedAndSaved :
                IF id \in DOMAIN ss_meta
                THEN id \in ss_state_files'
                ELSE (\A q \in ss_last'.failed : q[2] # "state") => id \notin ss_state_files'
          /\ ss_meta' = ss_meta]_vars

\* two Runtimes were live; the cleanup of one raised, the other saved its state
\* and its file is on disk beside its metadata file; the cache is empty
C32_Witness ==
    /\ ss_last.op = "cleanup"
    /\ active_sessions = <<>>
    /\ \E a, b \in AllSessionIds :
          /\ a # b
          /\ <<a, "raises">> \in ss_last.failed
          /\ a \notin ss_state_files
          /\ <<b, "cleanup">> \in ss_last.attempted
          /\ \A o \in CleanupOutcomes : <<b, o>> \notin ss_last.failed
          /\ b \in ss_state_files /\ b \in DOMAIN ss_meta

\* a step of process(), run() or cleanup() that changes the status: these are
\* the steps that move the task (pc); set_state and load_state called by the
\* caller leave it where it is
LifecycleStatusChange == pc' # pc /\ status' # status

\* C33 (as claimed): every status change performed by process(), run() and
\* cleanup(), in any order of calls, is a pair of the State Machine's table:
\* the new status is one the table allows after the status held just before.
C33_StatusChangesFollowTable ==
    [][LifecycleStatusChange => <<status, status'>> \in DesignTable]_vars

\* C34 (as claimed): after cleanup() has returned with its save having
\* succeeded, loading the state file gives the Runtime's final state: the status
\* (STOPPED) and the messages that the AgentState in memory holds.
C34_SnapshotIsFinalState ==
    (AfterCleanup /\ ret = Returned("None") /\ EventsAt("save_direct", "True") # {}) =>
        /\ status = "STOPPED"
        /\ ~ IsNone(PersistenceLoad(file))
        /\ FromDict(The(PersistenceLoad(file))).status = status
        /\ FromDict(The(PersistenceLoad(file))).messages = messages

\* ========================================================================
\*                              DEFAULT AGENT
\* ========================================================================

\* The model backend, as DefaultAgent uses it: create_llm when the Runtime is
\* initialised, token counting and generate_chat_completion in every turn.
LlmOutcomes == {"ok", "fails"}
CountError == "count_fails"
GenerateError == "generate_fails"
LlmReply == "reply"

\* base.py:28-62, state.py:43-49  a Runtime just constructed for the agent id
\* whose state file is w.file
Constructed(w) ==
    [w EXCEPT !.status = "IDLE", !.messages = <<>>, !.error = NoneV,
              !.persistence = FALSE, !.on_state_change = <<>>,
              !.last_save_time = NoneV, !.log = <<>>]

\* base.py:64-83  BaseAgent.initialize
BaseAgent_initialize(w) ==
    LET w1 == init_persistence(w)
    IN  IF system_prompt # ""
        THEN add_message(w1, Message(RoleSystem, system_prompt)) ELSE w1

\* the last load_state of w returned True
Loaded(w) == w.log # <<>> /\ w.log[Len(w.log)] = Event("load", "True")

\* default.py:39-55  DefaultAgent.initialize, up to the creation of the LLM
DefaultAgent_restore(w) ==
    LET w1 == load_state(w)
    IN  IF ~ Loaded(w1) THEN BaseAgent_initialize(w1)
        ELSE clear_history(init_persistence(w1), TRUE)

\* factory.py:44-83, default.py:39-70  create_agent for the default type: a new
\* Runtime is constructed for the agent id and initialised; when the LLM cannot
\* be created, initialize() raises ValueError
DefaultAgent_initialize(llm) ==
    /\ pc = "idle"
    /\ count' = 0
    /\ call' = [name |-> "DefaultAgent.initialize", input |-> "",
                before |-> IF IsNone(PersistenceLoad(file)) THEN <<>>
                           ELSE FromDict(The(PersistenceLoad(file))).messages,
                cbs |-> <<>>]
    /\ Commit(DefaultAgent_restore(Constructed(World)))
    /\ on_message' = <<>>
    /\ ret' = IF llm = "ok" THEN Returned("None")
              ELSE [kind |-> "raise", text |-> FALSE, val |-> "ValueError"]
    /\ UNCHANGED <<system_prompt, auto_save, now, pc>>

\* default.py:107  the text returned in place of a reply: it carries str(e)
Apology(e) == "sorry: " \o e
NoUserMessageText == "no message"

HasUserMessage(msgs) == \E i \in DOMAIN msgs : msgs[i].role = RoleUser

\* A variant without the try/except around the model call.
DefaultAgent_think_Unguarded(msgs, counting, generating) ==
    IF ~ HasUserMessage(msgs) THEN [kind |-> "value", text |-> TRUE, val |-> NoUserMessageText]
    ELSE IF counting = "fails" THEN [kind |-> "raise", text |-> FALSE, val |-> CountError]
    ELSE IF generating = "fails" THEN [kind |-> "raise", text |-> FALSE, val |-> GenerateError]
    ELSE [kind |-> "value", text |-> TRUE, val |-> LlmReply]

\* default.py:72-107  DefaultAgent.think: what it returns or raises, given how
\* the backend's token counting and its generate_chat_completion end.
\* truncate_messages (token.py:43-120) awaits the counting outside any try;
\* the step counter of AgentState is left out.
DefaultAgent_think(msgs, counting, generating) ==
    IF ~ HasUserMessage(msgs) THEN [kind |-> "value", text |-> TRUE, val |-> NoUserMessageText]
    ELSE IF counting = "fails" THEN [kind |-> "raise", text |-> FALSE, val |-> CountError]
    ELSE IF generating = "fails"
         THEN [kind |-> "value", text |-> TRUE, val |-> Apology(GenerateError)]
    ELSE [kind |-> "value", text |-> TRUE, val |-> LlmReply]

\* base.py:182-204 with default.py:72-107  process() of a DefaultAgent, from the
\* end of think() on
DefaultAgent_process_end(counting, generating) ==
    process_end(DefaultAgent_think(messages, counting, generating))

\* create_agent has returned this Runtime to its caller
Usable ==
    /\ call.name # "init"
    /\ ~ (call.name = "DefaultAgent.initialize" /\ ret.kind = "raise")

\* A DefaultAgent behind create_agent: Runtimes are constructed for the same
\* agent id one after the other, each finds the state file the one before it
\* left, takes turns against a backend that may fail, saves and is cleaned up.
DefaultNext ==
    \/ Tick /\ UNCHANGED <<smvars, wrvars, tkvars, psvars, ssvars, llvars>>
    \/ \E l \in LlmOutcomes :
          DefaultAgent_initialize(l) /\ UNCHANGED <<smvars, wrvars, tkvars, psvars, ssvars, llvars>>
    \/ \E u \in UserInputs :
          Usable /\ process_begin(u) /\ UNCHANGED <<smvars, wrvars, tkvars, psvars, ssvars, llvars>>
    \/ \E c \in LlmOutcomes, g \in LlmOutcomes :
          DefaultAgent_process_end(c, g) /\ UNCHANGED <<smvars, wrvars, tkvars, psvars, ssvars, llvars>>
    \/ Usable /\ save_state_call /\ UNCHANGED <<smvars, wrvars, tkvars, psvars, ssvars, llvars>>
    \/ Usable /\ cleanup_begin /\ UNCHANGED <<smvars, wrvars, tkvars, psvars, ssvars, llvars>>
    \/ cleanup_save /\ UNCHANGED <<smvars, wrvars, tkvars, psvars, ssvars, llvars>>
    \/ cleanup_end /\ UNCHANGED <<smvars, wrvars, tkvars, psvars, ssvars, llvars>>
    \/ \E k \in BOOLEAN :
          Usable /\ clear_history_call(k) /\ UNCHANGED <<smvars, wrvars, tkvars, psvars, ssvars, llvars>>
    \/ \E o \in SaveOutcomes : save_write(o) /\ UNCHANGED <<smvars, wrvars, tkvars, psvars, ssvars, llvars>>
    \/ save_resume /\ UNCHANGED <<smvars, wrvars, tkvars, psvars, ssvars, llvars>>

SpecDefault == Init /\ [][DefaultNext]_vars

\* ------------------------- DefaultAgent: claims -------------------------

\* create_agent has just restored a Runtime from a state file it could load
AfterRestore ==
    /\ call.name = "DefaultAgent.initialize" /\ pc = "idle"
    /\ ret = Returned("None")
    /\ Event("load", "True") \in Range(oplog)

\* C35 (as claimed): a Runtime restored from disk carries the persisted
\* conversation: its message history equals the message history last saved for
\* its id.
C35_RestoredHistoryIsSaved == AfterRestore => messages = call.before

\* process() returns or raises in this step: think() is over and so is the
\* auto-save of the last status change
ProcessReturns == call.name = "process" /\ pc # "idle" /\ pc' = "idle"

\* C37: in a turn of a DefaultAgent a failure of generate_chat_completion does
\* not propagate: process() returns the apologetic text, appends it as the
\* assistant message and ends in IDLE; a failure of the token counting does:
\* process() raises it and ends in ERROR with no assistant message.  Nothing
\* else is raised and no counting failure is turned into a text.
C37_ModelFailureIsTextCountingFailureRaises ==
    [][ProcessReturns =>
          /\ ret'.kind \in {"value", "raise"}
          /\ ret'.kind = "value" =>
                /\ ret'.val \in {LlmReply, Apology(GenerateError)}
                /\ status' = "IDLE"
                /\ messages' = call.before \o <<Message(RoleUser, call.input),
                                                Message(RoleAssistant, ret'.val)>>
          /\ ret'.kind = "raise" =>
                /\ ret'.val = CountError
                /\ status' = "ERROR"
                /\ error' = Some(CountError)
                /\ messages' = call.before \o <<Message(RoleUser, call.input)>>]_vars

\* two turns have ended: in an earlier one the counting failed and process()
\* raised, which left its error in the state; in the last one the model call
\* failed and process() returned the apology as the assistant message, in IDLE
C37_Witness ==
    /\ AfterProcess
    /\ ret.val = Apology(GenerateError)
    /\ status = "IDLE"
    /\ error = Some(CountError)
    /\ Len(messages) >= 2
    /\ messages[Len(messages)] = Message(RoleAssistant, Apology(GenerateError))
    /\ messages[Len(messages) - 1].role = RoleUser

\* ========================================================================
\*                          HANDLE_AGENT_REQUEST
\* ========================================================================

MaxReqMsgs == 5
RequestSession == "s1"
RequestInputs == {"q1", "q2"}
\* the turns of the requests end with think() returning text or raising
RequestThinkOutcomes == {r \in ThinkOutcomes : r.kind = "raise" \/ r.text}

\* the tasks that are inside process(), suspended in think()
Pending == {t \in DOMAIN ss_task : ss_task[t].pc = "think"}

\* persistence.py:35-76  the state files on disk after a step of the session's
\* Runtime: its auto-save leaves a file, whole or cut short, once it has opened it
StateFilesWith(session_id) ==
    IF file'.kind # "absent" THEN ss_state_files \cup {session_id} ELSE ss_state_files

SsResult(r) == [kind |-> r.kind, agent |-> 0]

\* the tasks that are inside process(), suspended in think() or in a save
InProcess == {t \in DOMAIN ss_task : ss_task[t].pc # "idle"}

\* the task of a request whose process() has run to w: suspended in think()
\* (next_pc "think"), back from handle_agent_request with r (next_pc "idle"), or
\* suspended in a save after which it goes on to next_pc
RequestTask(w, next_pc, arg, r) ==
    IF IsNone(w.saving)
    THEN IF next_pc = "idle" THEN SsIdle
         ELSE [pc |-> next_pc, op |-> "handle_agent_request", arg |-> arg,
               id |-> RequestSession, saving |-> NoneV]
    ELSE [pc |-> "saving", op |-> "handle_agent_request", arg |-> arg,
          id |-> RequestSession, saving |-> Then(w, next_pc, r).saving]

\* what the request task that has run to w leaves as the last call ended
RequestLast(w, next_pc, arg, r) ==
    IF IsNone(w.saving) /\ next_pc = "idle"
    THEN SsLast("handle_agent_request", arg, RequestSession, SsResult(r), {}, {})
    ELSE ss_last

\* main.py:37-42 with session.py:217-218 and base.py:159-180: the session is
\* cached, so get_session returns its Runtime without suspending and process()
\* runs up to the await of think(), or to the await inside the auto-save of the
\* change to PROCESSING
handle_agent_request_begin(t, user_input) ==
    /\ ss_task[t].pc = "idle"
    /\ RequestSession \in DOMAIN active_sessions
    /\ Len(messages) + Cardinality(InProcess) + 2 <= MaxReqMsgs
    /\ LET w == process_until_think(Fresh, user_input)
       IN  /\ Commit([w EXCEPT !.saving = NoneV])
           /\ ss_task' = [ss_task EXCEPT ![t] =
                             RequestTask(w, "think", Some(user_input), NoRet)]
    /\ ss_state_files' = StateFilesWith(RequestSession)
    /\ UNCHANGED <<system_prompt, auto_save, on_message, now, pc, count, call, ret>>
    /\ UNCHANGED <<active_sessions, ss_order, ss_meta, ss_runtimes, ss_last>>

\* main.py:42 with base.py:182-204: think() is over for task t; process()
\* returns or raises, and so does handle_agent_request, once the auto-save of
\* the last status change is over
handle_agent_request_end(t, result) ==
    /\ ss_task[t].pc = "think"
    /\ LET w == process_after_think(World, result)
       IN  /\ Commit([w EXCEPT !.saving = NoneV])
           /\ ss_task' = [ss_task EXCEPT ![t] =
                             RequestTask(w, "idle", ss_task[t].arg, result)]
           /\ ss_last' = RequestLast(w, "idle", ss_task[t].arg, result)
    /\ ss_state_files' = StateFilesWith(RequestSession)
    /\ UNCHANGED <<system_prompt, auto_save, on_message, now, pc, count, call, ret>>
    /\ UNCHANGED <<active_sessions, ss_order, ss_meta, ss_runtimes>>

\* persistence.py:51-58  the event loop runs the task of the write that the
\* save of task t waits for
handle_agent_request_write(t, outcome) ==
    /\ ss_task[t].pc = "saving"
    /\ The(ss_task[t].saving).stage = "snapshot"
    /\ Commit(save_to_file(World, The(ss_task[t].saving), outcome))
    /\ ss_task' = [ss_task EXCEPT ![t].saving = Some(Written(The(@), outcome))]
    /\ ss_state_files' = StateFilesWith(RequestSession)
    /\ UNCHANGED <<system_prompt, auto_save, on_message, now, pc, count, call, ret>>
    /\ UNCHANGED <<active_sessions, ss_order, ss_meta, ss_runtimes, ss_last>>

\* base.py:115-122, 335-346  the event loop resumes task t after the write of
\* its save: process() goes on to the await of think(), or returns
handle_agent_request_resume(t) ==
    /\ ss_task[t].pc = "saving"
    /\ The(ss_task[t].saving).stage = "written"
    /\ LET p == The(ss_task[t].saving)
           w == NotifyEach(save_state_resumed(World, p), p.rest)
       IN  /\ Commit([w EXCEPT !.saving = NoneV])
           /\ ss_task' = [ss_task EXCEPT ![t] = RequestTask(w, p.pc, ss_task[t].arg, p.ret)]
           /\ ss_last' = RequestLast(w, p.pc, ss_task[t].arg, p.ret)
    /\ ss_state_files' = StateFilesWith(RequestSession)
    /\ UNCHANGED <<system_prompt, auto_save, on_message, now, pc, count, call, ret>>
    /\ UNCHANGED <<active_sessions, ss_order, ss_meta, ss_runtimes>>

\* An AgentSession whose session RequestSession is live: its Runtime has been
\* created and initialised by an earlier request.
InitReq ==
    /\ SMInit /\ NotesInit /\ TokAtRest /\ PersAtRest /\ LlmAtRest
    /\ system_prompt = "sys"
    /\ auto_save = TRUE
    /\ LET w == BaseAgent_initialize(
                    [status |-> "IDLE", messages |-> <<>>, error |-> NoneV,
                     persistence |-> FALSE, on_state_change |-> <<>>,
                     last_save_time |-> NoneV, file |-> AbsentFile, log |-> <<>>,
                     saving |-> NoneV])
       IN  /\ status = w.status
           /\ messages = w.messages
           /\ error = w.error
           /\ persistence = w.persistence
           /\ on_state_change = w.on_state_change
           /\ last_save_time = w.last_save_time
           /\ file = w.file
           /\ oplog = w.log
    /\ on_message = <<>>
    /\ now = 0
    /\ pc = "idle"
    /\ count = 0
    /\ grown = Len(messages)
    /\ saving = NoneV
    /\ call = [name |-> "initialize", input |-> "", before |-> <<>>, cbs |-> <<>>]
    /\ ret = NoRet
    /\ active_sessions = [id \in {RequestSession} |-> 1]
    /\ ss_order = <<RequestSession>>
    /\ ss_runtimes = {RequestSession}
    /\ ss_meta = [id \in {RequestSession} |-> MetaRecord(0)]
    /\ ss_state_files = {}
    /\ ss_task = [t \in {1, 2} |-> SsIdle]
    /\ ss_last = SsLast("create_session", Some(RequestSession), RequestSession, SsAgent(1),
                        {"metadata"}, {})

\* Two tasks of the event loop, each awaiting handle_agent_request for the same
\* session id; the loop runs one task at a time and switches where a task
\* suspends.
ReqNext ==
    \/ \E t \in DOMAIN ss_task, u \in RequestInputs :
          handle_agent_request_begin(t, u) /\ UNCHANGED <<smvars, wrvars, tkvars, psvars, llvars>>
    \/ \E t \in DOMAIN ss_task, r \in RequestThinkOutcomes :
          handle_agent_request_end(t, r) /\ UNCHANGED <<smvars, wrvars, tkvars, psvars, llvars>>
    \/ \E t \in DOMAIN ss_task, o \in ObsSaveOutcomes :
          handle_agent_request_write(t, o) /\ UNCHANGED <<smvars, wrvars, tkvars, psvars, llvars>>
    \/ \E t \in DOMAIN ss_task :
          handle_agent_request_resume(t) /\ UNCHANGED <<smvars, wrvars, tkvars, psvars, llvars>>

SpecReq == InitReq /\ [][ReqNext]_vars

\* C36 (as claimed): requests for the same session id that enter through
\* handle_agent_request are serialized: at no time are two executions of
\* process() on the Runtime under way, and while a turn is pending the history
\* ends with that turn's user message, no other turn's user message after it.
C36_RequestsAreSerialized ==
    /\ Cardinality(Pending) <= 1
    /\ \A t \in Pending :
          messages[Len(messages)] = Message(RoleUser, The(ss_task[t].arg))

\* ========================================================================
\*                          BASELLM: _handle_retry
\* ========================================================================

MaxRetries == 3
MaxBaseDelay == 2
MaxRetriesArgs == (0 - 1)..MaxRetries
BaseDelayArgs == 1..MaxBaseDelay

\* llm/base.py:221-224  the keywords _should_retry looks for
RetryKeywords ==
    {"timeout", "connection", "rate limit", "too many requests",
     "server error", "availability", "capacity", "overloaded"}

\* The exceptions func raises: each is told apart by the request that raised
\* it; has is the set of phrases its lower-cased text contains.
RequestErrors ==
    {{"timeout"}, {"rate limit", "quota"}, {"invalid api key"}}
\* What one await of func does: it returns, or raises one of the exceptions.
RequestOutcomes ==
    {[ok |-> TRUE, has |-> {}]} \cup {[ok |-> FALSE, has |-> e] : e \in RequestErrors}
Exc(has, at) == [kind |-> "raise", has |-> has, at |-> at]
Ok(at) == [kind |-> "value", has |-> {}, at |-> at]
\* raise None: "exceptions must derive from BaseException"
TypeErrorExc == [kind |-> "raise", has |-> {"TypeError"}, at |-> 0]

\* A variant that retries whatever the failure is.
should_retry_Always(e) == TRUE

\* llm/base.py:209-231
should_retry(e) == \E keyword \in RetryKeywords : keyword \in e.has

RECURSIVE Pow2(_)
Pow2(n) == IF n <= 0 THEN 1 ELSE 2 * Pow2(n - 1)

\* A variant whose delay grows by base_delay with every retry.
BackoffDelay_Linear(base_delay, retries) == base_delay * retries

\* llm/base.py:199  delay = base_delay * (2 ** (retries - 1))
BackoffDelay(base_delay, retries) == base_delay * Pow2(retries - 1)

\* llm/base.py:160-176  a call of _handle_retry is at the top of its loop
InitRetry ==
    /\ SMInit /\ AgentInit /\ NotesInit /\ TokAtRest /\ PersAtRest /\ SessAtRest
    /\ history_call = NoneV
    /\ \E mr \in MaxRetriesArgs, bd \in BaseDelayArgs :
          handle_retry =
              [pc |-> "loop", max_retries |-> mr, base_delay |-> bd, retries |-> 0,
               last_exception |-> NoneV, requests |-> <<>>, slept |-> <<>>,
               ret |-> NoneV]

\* llm/base.py:178-207  one evaluation of the loop condition and, when it holds,
\* one await of func: outcome is what func does this time
handle_retry_attempt(outcome) ==
    LET h == handle_retry
        at == Len(h.requests) + 1
    IN  /\ h.pc = "loop"
        /\ IF ~ (h.retries <= h.max_retries)
           THEN \* the loop is over: raise last_exception
                handle_retry' =
                    [h EXCEPT !.pc = "done",
                              !.ret = IF IsNone(h.last_exception) THEN Some(TypeErrorExc)
                                      ELSE h.last_exception]
           ELSE IF outcome.ok
           THEN handle_retry' =
                    [h EXCEPT !.pc = "done", !.requests = Append(@, Ok(at)),
                              !.ret = Some(Ok(at))]
           ELSE LET e == Exc(outcome.has, at)
                    retries == h.retries + 1
                    h1 == [h EXCEPT !.requests = Append(@, e),
                                    !.last_exception = Some(e),
                                    !.retries = retries]
                IN  IF ~ should_retry(e) \/ retries > h.max_retries
                    THEN handle_retry' = [h1 EXCEPT !.pc = "done", !.ret = Some(e)]
                    ELSE handle_retry' =
                             [h1 EXCEPT !.pc = "sleep",
                                        !.slept = Append(@, BackoffDelay(h.base_delay, retries))]
        /\ UNCHANGED history_call

\* llm/base.py:201  asyncio.sleep(delay) is over
handle_retry_wake ==
    /\ handle_retry.pc = "sleep"
    /\ handle_retry' = [handle_retry EXCEPT !.pc = "loop"]
    /\ UNCHANGED history_call

RetryNext ==
    \/ \E o \in RequestOutcomes :
          handle_retry_attempt(o) /\ UNCHANGED <<smvars, agvars, wrvars, tkvars, psvars, ssvars>>
    \/ handle_retry_wake /\ UNCHANGED <<smvars, agvars, wrvars, tkvars, psvars, ssvars>>

\* Every await of func ends, by a return or by an exception, and every sleep
\* ends.
SpecRetry ==
    /\ InitRetry
    /\ [][RetryNext]_vars
    /\ WF_vars(\E o \in RequestOutcomes :
                  handle_retry_attempt(o) /\ UNCHANGED <<smvars, agvars, wrvars, tkvars, psvars, ssvars>>)
    /\ WF_vars(handle_retry_wake /\ UNCHANGED <<smvars, agvars, wrvars, tkvars, psvars, ssvars>>)

\* --------------------------- BaseLLM: claims ----------------------------

RetryDone == handle_retry.pc = "done"

\* what holds of a call of _handle_retry at every moment
RetryIsBoundedAndOrdered ==
    LET h == handle_retry
        n == Len(h.requests)
    IN  /\ n <= (IF h.max_retries >= 0 THEN h.max_retries + 1 ELSE 0)
        /\ \A i \in 1..(n - 1) : h.requests[i].kind = "raise" /\ should_retry(h.requests[i])
        /\ h.slept = [k \in 1..Len(h.slept) |-> h.base_delay * Pow2(k - 1)]
        /\ Len(h.slept) = (IF RetryDone /\ n > 0 THEN n - 1 ELSE n)
        /\ ~ RetryDone =>
              /\ IsNone(h.ret)
              /\ \A i \in 1..n : h.requests[i].kind = "raise"
        /\ (RetryDone /\ n > 0) =>
              /\ h.ret = Some(h.requests[n])
              /\ h.requests[n].kind = "raise" =>
                    ~ should_retry(h.requests[n]) \/ n = h.max_retries + 1

\* C38: _handle_retry is bounded: it awaits func at most max_retries + 1 times
\* (4 by default); it returns the first success; the first failure that
\* _should_retry rejects ends it; before the k-th retry it has slept
\* base_delay * 2^(k-1); when it gives up it raises the exception of the last
\* attempt; and it always terminates.
C38_BoundedRetry == [] RetryIsBoundedAndOrdered /\ <> RetryDone

\* with the default max_retries of 3 and a base_delay of 2: four requests have
\* failed with errors worth a retry, the delays were 2, 4 and 8, and the call
\* has raised the exception of the fourth request
C38_Witness ==
    /\ RetryDone
    /\ handle_retry.max_retries = 3
    /\ Len(handle_retry.requests) = 4
    /\ handle_retry.slept = <<2, 4, 8>>
    /\ handle_retry.ret = Some(Exc({"timeout"}, 4))
    /\ handle_retry.requests[1].has = {"rate limit", "quota"}

\* ========================================================================
\*                MESSAGEHANDLER: truncate_message_history
\* ========================================================================

MaxHistMsgs == 4
MaxStamp == 2
MaxCountArgs == 0..MaxHistMsgs

\* state.py:18-23  a message with the timestamp the sort reads
StampedMessage(role, t) == [role |-> role, timestamp |-> t]

\* Histories as a Runtime builds them: each message stamped when it is added,
\* so the timestamps never decrease.
Histories ==
    {h \in UNION {[1..n -> {StampedMessage(r, t) : r \in {RoleSystem, RoleUser},
                                                  t \in 1..MaxStamp}] : n \in 0..MaxHistMsgs} :
        \A i \in 1..(Len(h) - 1) : h[i].timestamp <= h[i + 1].timestamp}

\* A variant that takes the last n, none when n is 0.
LastOf_Exact(seq, n) ==
    IF n >= Len(seq) THEN seq ELSE SubSeq(seq, Len(seq) - n + 1, Len(seq))

\* Python's seq[-n:] for n >= 0: the last n items, and since -0 is 0 the whole
\* of seq when n is 0
LastOf(seq, n) ==
    IF n = 0 \/ n >= Len(seq) THEN seq ELSE SubSeq(seq, Len(seq) - n + 1, Len(seq))

\* list.sort(key=timestamp): stable, ascending
RECURSIVE InsertByTimestamp(_, _)
InsertByTimestamp(sorted, m) ==
    IF sorted = <<>> THEN <<m>>
    ELSE IF sorted[Len(sorted)].timestamp <= m.timestamp THEN Append(sorted, m)
    ELSE Append(InsertByTimestamp(SubSeq(sorted, 1, Len(sorted) - 1), m), sorted[Len(sorted)])
RECURSIVE SortByTimestamp(_)
SortByTimestamp(seq) ==
    IF seq = <<>> THEN <<>>
    ELSE InsertByTimestamp(SortByTimestamp(SubSeq(seq, 1, Len(seq) - 1)), seq[Len(seq)])

IsNotSystemMessage(m) == m.role # RoleSystem

\* message_handler.py:92-127
truncate_message_history(msgs, max_count, keep_system) ==
    IF Len(msgs) <= max_count THEN msgs
    ELSE IF keep_system
    THEN LET system_msgs == SelectSeq(msgs, IsSystemMessage)
             other_msgs == LastOf(SelectSeq(msgs, IsNotSystemMessage), max_count)
         IN  SortByTimestamp(system_msgs \o other_msgs)
    ELSE LastOf(msgs, max_count)

\* a caller holds a history and is about to truncate it
InitHist ==
    /\ SMInit /\ AgentInit /\ NotesInit /\ TokAtRest /\ PersAtRest /\ SessAtRest
    /\ handle_retry = NoneV
    /\ \E h \in Histories, n \in MaxCountArgs, k \in BOOLEAN :
          history_call = [messages |-> h, max_count |-> n, keep_system |-> k,
                          result |-> NoneV]

truncate_message_history_call ==
    /\ IsNone(history_call.result)
    /\ history_call' =
          [history_call EXCEPT !.result =
              Some(truncate_message_history(history_call.messages, history_call.max_count,
                                            history_call.keep_system))]
    /\ UNCHANGED handle_retry

HistNext ==
    truncate_message_history_call /\ UNCHANGED <<smvars, agvars, wrvars, tkvars, psvars, ssvars>>

SpecHist == InitHist /\ [][HistNext]_vars

\* ------------------------ MessageHandler: claims ------------------------

\* C39 (as claimed): for every history and every max_count >= 0,
\* truncate_message_history returns at most max_count messages, the most
\* recent message among them whenever it returns any, and a history of at
\* most max_count messages is returned unchanged.
C39_AtMostMaxCount ==
    ~ IsNone(history_call.result) =>
        LET c == history_call
            result == The(c.result)
        IN  /\ Len(result) <= c.max_count
            /\ result # <<>> => result[Len(result)] = c.messages[Len(c.messages)]
            /\ Len(c.messages) <= c.max_count => result = c.messages

\* ---------------------------- run(): claims ------------------------------

\* C40: run() changes the status through set_state only, which invokes no
\* state-change callback: from its start to its end no subscriber is notified
\* and no auto-save is attempted, whatever is registered; and however run()
\* ends (the loop's cap, a status changed by another task, a cancellation) the
\* status it leaves is IDLE.
C40_RunIsSilentAndEndsIdle ==
    call.name = "run" =>
        /\ \A i \in DOMAIN oplog : oplog[i].ev = "set_status"
        /\ pc = "idle" => status = "IDLE"

\* run() was started on a Runtime that has the auto-save subscribed; another
\* task changed the status while it slept, and run() has returned before its
\* cap, leaving IDLE after the other task's status
C40_Witness ==
    /\ call.name = "run" /\ pc = "idle"
    /\ "auto_save" \in Range(call.cbs)
    /\ ret = Returned("None")
    /\ count > 0 /\ count < MaxIdleLoops
    /\ status = "IDLE"
    /\ oplog = <<Event("set_status", "RUNNING"), Event("set_status", "IDLE")>>

====
